---- MODULE Spec2Model ----
(***************************************************************************)
(* Fingerprint matching engine of the what-was-that backend                *)
(* (class AudioFingerprint, second version, src/unnamed/part_001).         *)
(*                                                                         *)
(* Eight specifications share the module:                                  *)
(*   Spec         the library and the calls of storeAudio, deleteAudio and *)
(*                matchAudio in flight against it;                         *)
(*   SpecScan     the same calls, the scan of matchAudio one entry a step; *)
(*   SpecHandler  the handler of POST /api/audio/match and the device      *)
(*                registry it notifies through;                            *)
(*   SpecExtract  calls of extractFeatures, one window per step;           *)
(*   SpecCompare  one call of compareFingerprints, one offset per step;    *)
(*   SpecSelf     the accumulation of compareFingerprintsWithOffset for a  *)
(*                fingerprint against itself, bit-exact in binary64;       *)
(*   SpecPersist  the store, upload and delete handlers and the database   *)
(*                file they rewrite;                                       *)
(*   SpecSensor   the sensor screen of the phone (iphone-sensor): audio    *)
(*                chunks, the rolling buffer and the trigger uploads.      *)
(*                                                                         *)
(* Numbers.  Feature values are integers in units of 0.001 (so the floor   *)
(* 0.001 of the normalised difference is 1).  A similarity is an integer   *)
(* in units of 1/ES, a weight an integer number of hundredths, and a score *)
(* an integer in units of 1/ScoreOne = 1/(100*ES); Math.exp is evaluated   *)
(* by its series and rounded to that unit.  Where the rounding of          *)
(* JavaScript numbers decides a property (SpecSelf) the values are         *)
(* IEEE-754 binary64 values, held exactly.                                 *)
(***************************************************************************)
EXTENDS Integers, Sequences, FiniteSets, TLC

VARIABLES
    \* ---- compareFingerprints, one call unrolled (SpecCompare) ----
    fp1, fp2,        \* the two arguments
    cpc,             \* "call" | "loop" | "done"
    offset,          \* loop variable of compareFingerprints
    bestScore,       \* local bestScore of compareFingerprints
    evaluated        \* the calls made to compareFingerprintsWithOffset: <<offset, score>>

cvars == <<fp1, fp2, cpc, offset, bestScore, evaluated>>

\* no call of compareFingerprints is being followed
IdleCompare ==
    /\ fp1 = <<>> /\ fp2 = <<>> /\ cpc = "idle"
    /\ offset = 0 /\ bestScore = 0 /\ evaluated = <<>>

VARIABLES
    \* ---- compareFingerprintsWithOffset(F, F, 0) in binary64 (SpecSelf) ----
    selfLen,         \* F.length
    spc,             \* "frames" | "divide" | "done"
    frameIdx,        \* i of the frame loop
    featureIdx,      \* position in Object.entries(weights), 1-based
    total64,         \* totalSimilarity, a binary64 value
    score64          \* the returned value, a binary64 value

svars == <<selfLen, spc, frameIdx, featureIdx, total64, score64>>

\* no binary64 accumulation is being followed
IdleSelf ==
    /\ selfLen = 0 /\ spc = "idle" /\ frameIdx = 0 /\ featureIdx = 1
    /\ total64 = <<0, 0, 0>> /\ score64 = <<0, 0, 0>>

VARIABLES
    \* ---- the server: the library and the requests in flight (Spec) ----
    database,        \* this.database: the Map as its sequence of entries, in insertion order
    clock,           \* new Date(): the current time
    calls,           \* number of calls started so far
    req              \* per request slot: position, arguments, returned value

mvars == <<database, clock, calls, req>>

\* no server is being followed
IdleServer ==
    /\ database = <<>> /\ clock = 0 /\ calls = 0 /\ req = <<>>

VARIABLES
    \* ---- extractFeatures, one window per step (SpecExtract) ----
    audioData,       \* the argument: channelData[0] (length, content) and sampleRate
    epc,             \* "idle" | "loop" | "done" | "stored"
    windowStart,     \* loop variable i of extractFeatures
    prevSpectrum,    \* local prevSpectrum
    extracted,       \* local fingerprint: the feature vectors pushed so far
    extractions      \* the calls that returned: argument, returned fingerprint, library then

evars == <<audioData, epc, windowStart, prevSpectrum, extracted, extractions>>

\* no extraction is being followed
IdleExtract ==
    /\ audioData = << >> /\ epc = "idle" /\ windowStart = 0
    /\ prevSpectrum = << >> /\ extracted = << >> /\ extractions = << >>

VARIABLES
    \* ---- the handler of POST /api/audio/match (SpecHandler) ----
    deviceTokens,    \* the Map deviceTokens: userId -> push token (undefined when absent)
    handler,         \* the request being served: position, body, result, response
    served           \* number of match requests received so far

hvars == <<deviceTokens, handler, served>>

\* no request handler is being followed
IdleHandlers ==
    /\ deviceTokens = << >> /\ handler = << >> /\ served = 0

VARIABLES
    \* ---- the sensor screen: audio chunks and trigger uploads (SpecSensor) ----
    dateNow,                \* Date.now(), in ms
    lastUploadTime,         \* lastUploadTime.current
    audioBuffer,            \* audioBuffer.current: the lengths of the chunks held
    streamingSubscription,  \* whether audio events are subscribed to
    isProcessing,           \* the state isProcessing
    uploads                 \* the calls of triggerUpload: level, start time, settled or not

nvars == <<dateNow, lastUploadTime, audioBuffer, streamingSubscription, isProcessing, uploads>>

\* no sensor is being followed
IdleSensor ==
    /\ dateNow = 0 /\ lastUploadTime = 0 /\ audioBuffer = << >>
    /\ streamingSubscription = FALSE /\ isProcessing = FALSE /\ uploads = << >>

VARIABLES
    \* ---- the store, upload and delete handlers and the database file (SpecPersist) ----
    disk,            \* the content of the file at DB_PATH
    requests,        \* per request slot: kind, position, arguments, response
    writeFailed      \* whether a write of the file has failed so far

pvars == <<disk, requests, writeFailed>>

\* no persistence is being followed
IdlePersist ==
    /\ disk = << >> /\ requests = << >> /\ writeFailed = FALSE

vars == <<cvars, svars, mvars, evars, hvars, nvars, pvars>>

----------------------------------------------------------------------------
(* Small arithmetic helpers (Math.min, Math.max, Math.abs, Math.floor).    *)

Min(a, b) == IF a <= b THEN a ELSE b
Max(a, b) == IF a >= b THEN a ELSE b
Abs(a) == IF a < 0 THEN -a ELSE a

----------------------------------------------------------------------------
(* Feature vectors.                                                        *)

\* the twelve keys of the weights object, in insertion order
FeatureOrder ==
    << "energy", "zcr", "spectralCentroid", "spectralFlux", "spectralRolloff",
       "subBass", "bass", "lowMid", "mid", "highMid", "presence", "brilliance" >>

Features == { FeatureOrder[i] : i \in 1..Len(FeatureOrder) }

\* mid 0.16 instead of 0.15
weights_MidHeavier ==
    [ energy |-> 3, zcr |-> 5, spectralCentroid |-> 5, spectralFlux |-> 4,
      spectralRolloff |-> 4, subBass |-> 12, bass |-> 14, lowMid |-> 13,
      mid |-> 16, highMid |-> 11, presence |-> 8, brilliance |-> 6 ]

\* weights, in hundredths
weights ==
    [ energy |-> 3, zcr |-> 5, spectralCentroid |-> 5, spectralFlux |-> 4,
      spectralRolloff |-> 4, subBass |-> 12, bass |-> 14, lowMid |-> 13,
      mid |-> 15, highMid |-> 11, presence |-> 8, brilliance |-> 6 ]

\* Frames the inputs are built from (values in units of 0.001): silence, two
\* different sounds, and a frame with a negative and a large value.
FrameSilent == [ f \in Features |-> 0 ]
FrameTone ==
    [ energy |-> 4, zcr |-> 1, spectralCentroid |-> 8, spectralFlux |-> 0,
      spectralRolloff |-> 8, subBass |-> 0, bass |-> 1, lowMid |-> 4,
      mid |-> 8, highMid |-> 2, presence |-> 1, brilliance |-> 0 ]
FrameBark ==
    [ energy |-> 8, zcr |-> 4, spectralCentroid |-> 2, spectralFlux |-> 4,
      spectralRolloff |-> 4, subBass |-> 4, bass |-> 8, lowMid |-> 2,
      mid |-> 1, highMid |-> 0, presence |-> 0, brilliance |-> 0 ]
FrameOdd ==
    [ energy |-> 1, zcr |-> 0, spectralCentroid |-> 4, spectralFlux |-> -4,
      spectralRolloff |-> 8, subBass |-> 1, bass |-> 0, lowMid |-> 0,
      mid |-> 2, highMid |-> 8, presence |-> 4, brilliance |-> 2 ]

FrameKinds == << FrameSilent, FrameTone, FrameBark, FrameOdd >>
MaxAbsValue == 8

----------------------------------------------------------------------------
(* Math.exp(-normalizedDiff * 1.5) in fixed point.                         *)

ExpPrecision == 10 ^ 6      \* working precision of the series
ES == 10 ^ 4                \* unit of a similarity
ScoreOne == 100 * ES        \* the score 1.0

\* exp(-x) = sum_k (-x)^k / k!  with x = 1.5 * n / d, summed until the term
\* vanishes at the working precision; term is x^k/k! scaled by ExpPrecision.
RECURSIVE ExpSeries(_, _, _, _, _)
ExpSeries(n, d, k, term, acc) ==
    IF term = 0 THEN acc
    ELSE ExpSeries(n, d, k + 1, (term * 3 * n) \div (2 * d * (k + 1)),
                   IF k % 2 = 0 THEN acc + term ELSE acc - term)

\* exp(-1.5 * n/d), rounded to a multiple of 1/ES
ExpNeg(n, d) ==
    (ExpSeries(n, d, 0, ExpPrecision, 0) + (ExpPrecision \div ES) \div 2)
        \div (ExpPrecision \div ES)

ExpTable ==
    [ p \in (0 .. 2 * MaxAbsValue) \X (1 .. MaxAbsValue) |-> ExpNeg(p[1], p[2]) ]

\* one feature of one aligned pair of frames: similarity * weight
FeatureSimilarity(f1, f2, feature) ==
    LET v1 == f1[feature]
        v2 == f2[feature]
        maxVal == Max(Max(Abs(v1), Abs(v2)), 1)
        similarity == ExpTable[<<Abs(v1 - v2), maxVal>>]
    IN  similarity * weights[feature]

RECURSIVE FrameSimilarity(_, _, _)
FrameSimilarity(f1, f2, k) ==
    IF k = 0 THEN 0
    ELSE FrameSimilarity(f1, f2, k - 1) + FeatureSimilarity(f1, f2, FeatureOrder[k])

\* a fingerprint is a sequence of frames, each named by its index in FrameKinds
FrameIds == 1 .. Len(FrameKinds)

\* the inner for-loop over Object.entries(weights) for every pair of frames
\* (comparing the function with itself makes TLC tabulate it once, so that the
\* frame loop below looks similarities up rather than recomputing them)
FramePairTable ==
    LET table == [ p \in FrameIds \X FrameIds |->
                     FrameSimilarity(FrameKinds[p[1]], FrameKinds[p[2]], Len(FeatureOrder)) ]
    IN  IF table = table THEN table ELSE table

----------------------------------------------------------------------------
(* compareFingerprintsWithOffset                                           *)

\* what iterations lo .. hi-1 of the frame loop add to totalSimilarity (the
\* sum is split in halves to keep the evaluation shallow)
RECURSIVE totalSimilarity(_, _, _, _, _, _)
totalSimilarity(a, b, start1, start2, lo, hi) ==
    IF hi <= lo THEN 0
    ELSE IF hi = lo + 1 THEN FramePairTable[<<a[start1 + lo + 1], b[start2 + lo + 1]>>]
    ELSE LET half == (lo + hi) \div 2
         IN  totalSimilarity(a, b, start1, start2, lo, half)
               + totalSimilarity(a, b, start1, start2, half, hi)

\* the frames read by the frame loop: <<index in a, index in b>>, 0-based
ReadPairs(a, b, off) ==
    LET len == Min(Len(a), Len(b)) - Abs(off)
    IN  IF len <= 0 THEN {}
        ELSE { <<Max(0, off) + i, Max(0, -off) + i>> : i \in 0 .. len - 1 }

compareFingerprintsWithOffset_EmptyIsOne(a, b, off) ==
    LET len == Min(Len(a), Len(b)) - Abs(off)
    IN  IF len <= 0 THEN ScoreOne
        ELSE totalSimilarity(a, b, Max(0, off), Max(0, -off), 0, len) \div len

\* the second fingerprint is read from its start at every offset
compareFingerprintsWithOffset_SecondUnshifted(a, b, off) ==
    LET len == Min(Len(a), Len(b)) - Abs(off)
    IN  IF len <= 0 THEN 0
        ELSE totalSimilarity(a, b, Max(0, off), 0, 0, len) \div len

compareFingerprintsWithOffset(a, b, off) ==
    LET len == Min(Len(a), Len(b)) - Abs(off)
        start1 == Max(0, off)
        start2 == Max(0, -off)
    IN  IF len <= 0 THEN 0
        ELSE totalSimilarity(a, b, start1, start2, 0, len) \div len

----------------------------------------------------------------------------
(* compareFingerprints                                                     *)

OffsetLimit == 10
OffsetStep == 5

\* Math.min(10, Math.floor(len * 0.05))
maxOffset(a, b) == Min(OffsetLimit, (Min(Len(a), Len(b)) * 5) \div 100)

UpdateBest_Last(best, score) == score

\* bestScore = Math.max(bestScore, score)
UpdateBest(best, score) == Max(best, score)

\* the for-loop from the given offset on: the final bestScore
RECURSIVE OffsetLoop(_, _, _, _)
OffsetLoop(a, b, off, best) ==
    IF off > maxOffset(a, b) THEN best
    ELSE IF off = 0 THEN OffsetLoop(a, b, off + OffsetStep, best)
    ELSE OffsetLoop(a, b, off + OffsetStep,
                    UpdateBest(best, compareFingerprintsWithOffset(a, b, off)))

compareFingerprints(a, b) ==
    OffsetLoop(a, b, -maxOffset(a, b), compareFingerprintsWithOffset(a, b, 0))

----------------------------------------------------------------------------
(* Inputs of the scorer.                                                   *)

MaxShortLen == 2      \* short fingerprints: every sequence up to this length
MaxLenSteps == 10     \* long fingerprints: lengths 20, 40, ... 20*MaxLenSteps
MaxShiftSteps == 2    \* long fingerprints: the pattern shifted by 0, 5, ... 5*MaxShiftSteps

RECURSIVE SeqsUpTo(_, _)
SeqsUpTo(S, n) ==
    IF n = 0 THEN { <<>> }
    ELSE LET shorter == SeqsUpTo(S, n - 1)
         IN  shorter \cup { Append(s, x) : s \in { t \in shorter : Len(t) = n - 1 }, x \in S }

ShortFPs == SeqsUpTo(FrameIds, MaxShortLen)

\* a recording: a non-periodic pattern of the frame kinds, and the same
\* recording started shift windows later
PatternFrame(i) == (((i \div 3) + (i % 5) * (i % 2)) % Len(FrameKinds)) + 1
LongFP(len, shift) == [ i \in 1 .. len |-> PatternFrame(i + shift) ]

LongFPs == { LongFP(20 * k, 5 * j) : k \in 1 .. MaxLenSteps, j \in 0 .. MaxShiftSteps }

ScorerInputs == ShortFPs \cup LongFPs
\* one argument of every call is short or an unshifted recording
ReferenceInputs == ShortFPs \cup { LongFP(20 * k, 0) : k \in 1 .. MaxLenSteps }

----------------------------------------------------------------------------
(* SpecCompare: one call of compareFingerprints, one loop iteration per    *)
(* step.                                                                   *)

InitCompare ==
    /\ IdleSelf /\ IdleServer /\ IdleExtract /\ IdleHandlers /\ IdleSensor /\ IdlePersist
    /\ \E a \in ReferenceInputs, b \in ScorerInputs :
          \/ fp1 = a /\ fp2 = b
          \/ fp1 = b /\ fp2 = a
    /\ cpc = "call"
    /\ offset = 0
    /\ bestScore = 0
    /\ evaluated = <<>>

\* let bestScore = compareFingerprintsWithOffset(fp1, fp2, 0); offset = -maxOffset
CompareZeroOffset ==
    /\ cpc = "call"
    /\ LET score == compareFingerprintsWithOffset(fp1, fp2, 0)
       IN  /\ bestScore' = score
           /\ evaluated' = Append(evaluated, <<0, score>>)
    /\ offset' = -maxOffset(fp1, fp2)
    /\ cpc' = "loop"
    /\ UNCHANGED <<fp1, fp2, svars, mvars, evars, hvars, nvars, pvars>>

\* if (offset === 0) continue
CompareSkipZero ==
    /\ cpc = "loop"
    /\ offset <= maxOffset(fp1, fp2)
    /\ offset = 0
    /\ offset' = offset + OffsetStep
    /\ UNCHANGED <<fp1, fp2, cpc, bestScore, evaluated, svars, mvars, evars, hvars, nvars, pvars>>

\* score = compareFingerprintsWithOffset(fp1, fp2, offset); bestScore = Math.max(...)
CompareOffset ==
    /\ cpc = "loop"
    /\ offset <= maxOffset(fp1, fp2)
    /\ offset # 0
    /\ LET score == compareFingerprintsWithOffset(fp1, fp2, offset)
       IN  /\ bestScore' = UpdateBest(bestScore, score)
           /\ evaluated' = Append(evaluated, <<offset, score>>)
    /\ offset' = offset + OffsetStep
    /\ UNCHANGED <<fp1, fp2, cpc, svars, mvars, evars, hvars, nvars, pvars>>

\* return bestScore
CompareReturn ==
    /\ cpc = "loop"
    /\ offset > maxOffset(fp1, fp2)
    /\ cpc' = "done"
    /\ UNCHANGED <<fp1, fp2, offset, bestScore, evaluated, svars, mvars, evars, hvars, nvars, pvars>>

NextCompare ==
    \/ CompareZeroOffset
    \/ CompareSkipZero
    \/ CompareOffset
    \/ CompareReturn

SpecCompare == InitCompare /\ [][NextCompare]_vars

----------------------------------------------------------------------------
(* binary64 accumulation.                                                  *)
(*                                                                         *)
(* When a fingerprint is compared with itself at offset 0, v1 = v2 for     *)
(* every feature, so normalizedDiff = 0/maxVal = 0, Math.exp(-0) = 1 and   *)
(* similarity * weight = weight without rounding: the result is the        *)
(* binary64 sum of the twelve weights, F.length times over, divided by     *)
(* F.length.  A binary64 value is held exactly as three limbs              *)
(* <<hi, mid, lo>> in base 2^22 counting units of 2^-58 (the unit in the   *)
(* last place of the smallest weight); every operation rounds its exact    *)
(* result to 53 significant bits, ties to even, as IEEE-754 prescribes.    *)

Limb == 2 ^ 22

\* lowMid 0.12 instead of 0.13
weights64_LowMid ==
    [ energy           |-> << 491, 2181038,  335544>>,
      zcr              |-> << 819,  838860, 3355444>>,
      spectralCentroid |-> << 819,  838860, 3355444>>,
      spectralFlux     |-> << 655, 1509949, 1845494>>,
      spectralRolloff  |-> << 655, 1509949, 1845494>>,
      subBass          |-> <<1966,  335544, 1342176>>,
      bass             |-> <<2293, 3187671,  167776>>,
      lowMid           |-> <<1966,  335544, 1342176>>,
      mid              |-> <<2457, 2516582, 1677720>>,
      highMid          |-> <<1802, 1006632, 4026532>>,
      presence         |-> <<1310, 3019898, 3690988>>,
      brilliance       |-> << 983,  167772,  671088>> ]

\* the weights as binary64 values (the doubles nearest to the decimals)
weights64 ==
    [ energy           |-> << 491, 2181038,  335544>>,
      zcr              |-> << 819,  838860, 3355444>>,
      spectralCentroid |-> << 819,  838860, 3355444>>,
      spectralFlux     |-> << 655, 1509949, 1845494>>,
      spectralRolloff  |-> << 655, 1509949, 1845494>>,
      subBass          |-> <<1966,  335544, 1342176>>,
      bass             |-> <<2293, 3187671,  167776>>,
      lowMid           |-> <<2129, 3858759, 2852128>>,
      mid              |-> <<2457, 2516582, 1677720>>,
      highMid          |-> <<1802, 1006632, 4026532>>,
      presence         |-> <<1310, 3019898, 3690988>>,
      brilliance       |-> << 983,  167772,  671088>> ]

Zero64 == <<0, 0, 0>>
One64 == <<2 ^ 14, 0, 0>>

BitLength(x) == CHOOSE n \in 0 .. 31 : x < 2 ^ n /\ (n = 0 \/ x >= 2 ^ (n - 1))

Carry(x) ==
    LET c1 == x[2] + (x[3] \div Limb)
    IN  << x[1] + (c1 \div Limb), c1 % Limb, x[3] % Limb >>

Less64(x, y) ==
    \/ x[1] < y[1]
    \/ x[1] = y[1] /\ x[2] < y[2]
    \/ x[1] = y[1] /\ x[2] = y[2] /\ x[3] < y[3]

\* round x (plus a fraction of a unit when sticky) to 53 significant bits
Round64(x, sticky) ==
    LET drop == (2 * 22 + BitLength(x[1])) - 53
    IN  IF drop <= 0 THEN x
        ELSE LET m == 2 ^ drop
                 r == x[3] % m
                 half == m \div 2
                 odd == (x[3] \div m) % 2 = 1
                 down == << x[1], x[2], x[3] - r >>
                 up == Carry(<< x[1], x[2], (x[3] - r) + m >>)
             IN  IF r > half \/ (r = half /\ (sticky \/ odd)) THEN up ELSE down

\* x + y
Add64(x, y) == Round64(Carry(<< x[1] + y[1], x[2] + y[2], x[3] + y[3] >>), FALSE)

\* x / n for an integer n
Div64(x, n) ==
    LET r1 == x[1] % n
        r2 == (r1 * Limb + x[2]) % n
        r3 == (r2 * Limb + x[3]) % n
    IN  Round64(<< x[1] \div n, (r1 * Limb + x[2]) \div n, (r2 * Limb + x[3]) \div n >>,
                r3 # 0)

\* x - 1.0 in units of 2^-58, for x within one limb of 1.0
Minus1(x) ==
    IF x[1] = One64[1] /\ x[2] = 0 THEN x[3]
    ELSE IF x[1] = One64[1] - 1 /\ x[2] = Limb - 1 THEN x[3] - Limb
    ELSE IF Less64(x, One64) THEN -Limb ELSE Limb

MaxSelfLen == 90

InitSelf ==
    /\ IdleCompare /\ IdleServer /\ IdleExtract /\ IdleHandlers /\ IdleSensor /\ IdlePersist
    /\ selfLen \in 1 .. MaxSelfLen
    /\ spc = "frames"
    /\ frameIdx = 0
    /\ featureIdx = 1
    /\ total64 = Zero64
    /\ score64 = Zero64

\* totalSimilarity += similarity * weight   (similarity = 1)
SelfAddFeature ==
    /\ spc = "frames"
    /\ frameIdx < selfLen
    /\ total64' = Add64(total64, weights64[FeatureOrder[featureIdx]])
    /\ IF featureIdx < Len(FeatureOrder)
       THEN featureIdx' = featureIdx + 1 /\ frameIdx' = frameIdx
       ELSE featureIdx' = 1 /\ frameIdx' = frameIdx + 1
    /\ UNCHANGED <<selfLen, spc, score64, cvars, mvars, evars, hvars, nvars, pvars>>

\* return totalSimilarity / len
SelfDivide ==
    /\ spc = "frames"
    /\ frameIdx = selfLen
    /\ score64' = Div64(total64, selfLen)
    /\ spc' = "done"
    /\ UNCHANGED <<selfLen, frameIdx, featureIdx, total64, cvars, mvars, evars, hvars, nvars, pvars>>

NextSelf ==
    \/ SelfAddFeature
    \/ SelfDivide

SpecSelf == InitSelf /\ [][NextSelf]_vars

----------------------------------------------------------------------------
(* The library: storeAudio, deleteAudio, matchAudio.                       *)

Null == "null"                \* JavaScript null
Undefined == "undefined"      \* JavaScript undefined
Unknown == "unknown"          \* the literal 'unknown'
EmptyString == ""

AudioIds == { "a", "b" }
UserIds == { "u1", "u2" }

\* JavaScript truthiness of a userId value
Truthy(v) == v # Null /\ v # Undefined /\ v # EmptyString

\* A Map entry is [audioId, data]; data is what storeAudio sets (format "new":
\* an object with fingerprint, userId, timestamp) or, in a database file written
\* by the first version, the bare fingerprint array (format "old").
NewData(fingerprint, userId, timestamp) ==
    [ format |-> "new", fingerprint |-> fingerprint, userId |-> userId,
      timestamp |-> timestamp ]
OldData(fingerprint) ==
    [ format |-> "old", fingerprint |-> fingerprint, userId |-> Undefined,
      timestamp |-> Undefined ]

\* an entry without an owner counts as the first user's
StoredUserId_OldIsFirstUsers(storedData) ==
    IF storedData.format = "old" THEN "u1" ELSE storedData.userId

\* storedData.userId
StoredUserId(storedData) == storedData.userId
\* storedData.fingerprint || storedData
StoredFingerprint(storedData) == storedData.fingerprint

\* every set adds an entry
MapSet_AlwaysAppends(db, audioId, data) == Append(db, [ audioId |-> audioId, data |-> data ])

\* Map.prototype.set: an existing key keeps its position, a new key goes last
MapSet(db, audioId, data) ==
    IF \E i \in 1 .. Len(db) : db[i].audioId = audioId
    THEN [ i \in 1 .. Len(db) |->
             IF db[i].audioId = audioId THEN [ audioId |-> audioId, data |-> data ]
             ELSE db[i] ]
    ELSE Append(db, [ audioId |-> audioId, data |-> data ])

\* Map.prototype.delete
MapDelete(db, audioId) == SelectSeq(db, LAMBDA e : e.audioId # audioId)

\* allScores.sort((a, b) => b.score - a.score): stable, descending by score
RECURSIVE SortInsert(_, _)
SortInsert(sorted, x) ==
    IF sorted = <<>> THEN << x >>
    ELSE IF Head(sorted).score >= x.score
         THEN << Head(sorted) >> \o SortInsert(Tail(sorted), x)
         ELSE << x >> \o sorted

SortByScore_Unsorted(list) == list

RECURSIVE SortByScore(_)
SortByScore(list) ==
    IF list = <<>> THEN <<>>
    ELSE SortInsert(SortByScore(SubSeq(list, 1, Len(list) - 1)), list[Len(list)])

Skipped_Never(storedData, userId) == FALSE

\* is the entry skipped by   if (userId && storedData.userId !== userId) continue
Skipped(storedData, userId) == Truthy(userId) /\ StoredUserId(storedData) # userId

\* a later entry with the same score replaces the best match
Better_OrEqual(score, best) == score >= best

\* if (score > bestScore): is the entry the new best match?
Better(score, best) == score > best

\* the for-loop of matchAudio over the first i entries of the Map
RECURSIVE ScanLoop(_, _, _, _)
ScanLoop(db, i, unknownFingerprint, userId) ==
    IF i = 0 THEN [ bestMatch |-> Null, bestScore |-> 0, allScores |-> <<>> ]
    ELSE LET st == ScanLoop(db, i - 1, unknownFingerprint, userId)
             storedData == db[i].data
             score == compareFingerprints(unknownFingerprint, StoredFingerprint(storedData))
             pushed == Append(st.allScores,
                              [ audioId |-> db[i].audioId, score |-> score,
                                userId |-> IF Truthy(StoredUserId(storedData))
                                           THEN StoredUserId(storedData) ELSE Unknown ])
         IN  IF Skipped(storedData, userId) THEN st
             ELSE IF Better(score, st.bestScore)
                  THEN [ bestMatch |-> db[i].audioId, bestScore |-> score, allScores |-> pushed ]
                  ELSE [ st EXCEPT !.allScores = pushed ]

matchAudio_IgnoreThreshold(db, unknownFingerprint, threshold, userId) ==
    LET st == ScanLoop(db, Len(db), unknownFingerprint, userId)
    IN  [ match |-> st.bestMatch, confidence |-> st.bestScore,
          allScores |-> SortByScore(st.allScores) ]

matchAudio_ZeroOnMiss(db, unknownFingerprint, threshold, userId) ==
    LET st == ScanLoop(db, Len(db), unknownFingerprint, userId)
        allScores == SortByScore(st.allScores)
    IN  IF st.bestScore >= threshold
        THEN [ match |-> st.bestMatch, confidence |-> st.bestScore, allScores |-> allScores ]
        ELSE [ match |-> Null, confidence |-> 0, allScores |-> allScores ]

\* matchAudio after the await of generateFingerprint
matchAudio(db, unknownFingerprint, threshold, userId) ==
    LET st == ScanLoop(db, Len(db), unknownFingerprint, userId)
        allScores == SortByScore(st.allScores)
    IN  IF st.bestScore >= threshold
        THEN [ match |-> st.bestMatch, confidence |-> st.bestScore, allScores |-> allScores ]
        ELSE [ match |-> Null, confidence |-> st.bestScore, allScores |-> allScores ]

----------------------------------------------------------------------------
(* Spec: requests against one AudioFingerprint instance.  A call runs up  *)
(* to its await of generateFingerprint, other calls run, and the rest of   *)
(* the call runs in one piece.                                             *)

MaxCalls == 3         \* calls started in one run

\* fingerprints of the audio files stored: two different one-window sounds
StoredFPs == { <<2>>, <<3>> }
\* fingerprints of the audio files matched: an empty recording and a sound
QueryFPs == { <<>>, <<2>> }

PairScore == compareFingerprints(<<2>>, <<3>>)
Thresholds == { 0, PairScore, PairScore + 1 }

\* the userId argument of matchAudio: absent (the default) or a user
UserIdArgs == { Null, "u1" }

\* the requests in flight at the same time: two slots
Slots == { 1, 2 }
NoResult == [ match |-> Null, confidence |-> 0, allScores |-> <<>> ]
IdleReq ==
    [ pc |-> "idle", fingerprint |-> <<>>, threshold |-> 0, userId |-> Null,
      audioId |-> Null, result |-> NoResult, scanned |-> <<>>,
      pos |-> 0, visited |-> <<>> ]

\* databases loadDatabase can find at startup: empty, or one entry written by
\* either version of the server
LoadableDatabases ==
    { <<>> } \cup { << [ audioId |-> "a", data |-> OldData(f) ] >> : f \in StoredFPs }

InitServer ==
    /\ IdleCompare /\ IdleSelf /\ IdleExtract /\ IdleHandlers /\ IdleSensor /\ IdlePersist
    /\ database \in LoadableDatabases
    /\ clock = 1
    /\ calls = 0
    /\ req = [ p \in Slots |-> IdleReq ]

Free(p) == req[p].pc \in { "idle", "match_done", "store_done" }

\* a new request takes the first free slot
FirstFree(p) == Free(p) /\ \A q \in Slots : q < p => ~Free(q)

\* storeAudio up to   await this.generateFingerprint(audioPath)
StoreCall(p, audioId, userId) ==
    /\ FirstFree(p)
    /\ calls < MaxCalls
    /\ calls' = calls + 1
    /\ req' = [ req EXCEPT ![p] = [ IdleReq EXCEPT !.pc = "store_await",
                                      !.audioId = audioId, !.userId = userId ] ]
    /\ UNCHANGED <<database, clock, cvars, svars, evars, hvars, nvars, pvars>>

\* generateFingerprint resolves; this.database.set(...); return fingerprint
StoreResume(p, fingerprint) ==
    /\ req[p].pc = "store_await"
    /\ database' = MapSet(database, req[p].audioId,
                          NewData(fingerprint, req[p].userId, clock))
    /\ clock' = clock + 1
    /\ req' = [ req EXCEPT ![p].pc = "store_done", ![p].fingerprint = fingerprint ]
    /\ UNCHANGED <<calls, cvars, svars, evars, hvars, nvars, pvars>>

\* deleteAudio(audioId)
DeleteAudio(audioId) ==
    /\ calls < MaxCalls
    /\ calls' = calls + 1
    /\ database' = MapDelete(database, audioId)
    /\ UNCHANGED <<clock, req, cvars, svars, evars, hvars, nvars, pvars>>

\* matchAudio up to   await this.generateFingerprint(audioPath)
MatchCall(p, threshold, userId) ==
    /\ FirstFree(p)
    /\ calls < MaxCalls
    /\ calls' = calls + 1
    /\ req' = [ req EXCEPT ![p] = [ IdleReq EXCEPT !.pc = "match_await",
                                      !.threshold = threshold, !.userId = userId ] ]
    /\ UNCHANGED <<database, clock, cvars, svars, evars, hvars, nvars, pvars>>

\* generateFingerprint resolves; the scan, the sort and the return
MatchResume(p, unknownFingerprint) ==
    /\ req[p].pc = "match_await"
    /\ req' = [ req EXCEPT ![p].pc = "match_done",
                           ![p].fingerprint = unknownFingerprint,
                           ![p].scanned = database,
                           ![p].result = matchAudio(database, unknownFingerprint,
                                                    req[p].threshold, req[p].userId) ]
    /\ UNCHANGED <<database, clock, calls, cvars, svars, evars, hvars, nvars, pvars>>

Next ==
    \/ \E p \in Slots, audioId \in AudioIds, userId \in UserIds : StoreCall(p, audioId, userId)
    \/ \E p \in Slots, fingerprint \in StoredFPs : StoreResume(p, fingerprint)
    \/ \E audioId \in AudioIds : DeleteAudio(audioId)
    \/ \E p \in Slots, threshold \in Thresholds, userId \in UserIdArgs : MatchCall(p, threshold, userId)
    \/ \E p \in Slots, unknownFingerprint \in QueryFPs : MatchResume(p, unknownFingerprint)


Spec == InitServer /\ [][Next]_vars

----------------------------------------------------------------------------
(* SpecScan: the same requests, with the scan of matchAudio followed one   *)
(* library entry per step.  The loop iterates the live Map; it contains no *)
(* await, so while a scan runs no other call can take a step.              *)

ScanYields_AfterEveryEntry(p) == TRUE

\* does the scan loop of request p give up control between two entries?
\* (the loop body, lines 830-853, has no await)
ScanYields(p) == FALSE

\* request q is running its scan loop and holds the event loop
Occupies(q) == req[q].pc = "scanning" /\ ~ScanYields(q)

\* every other request is at an await or has returned
Quiet(p) == \A q \in Slots : q # p => ~Occupies(q)

InitScan ==
    /\ IdleCompare /\ IdleSelf /\ IdleExtract /\ IdleHandlers /\ IdleSensor /\ IdlePersist
    /\ database \in LoadableDatabases
    /\ clock = 1
    /\ calls = 0
    /\ req = [ p \in Slots |-> IdleReq ]

\* matchAudio resumes after the await: bestMatch = null, bestScore = 0,
\* allScores = [], the iterator is at the first entry
ScanStart(p, unknownFingerprint) ==
    /\ Quiet(p)
    /\ req[p].pc = "match_await"
    /\ req' = [ req EXCEPT ![p].pc = "scanning",
                           ![p].fingerprint = unknownFingerprint,
                           ![p].scanned = database,
                           ![p].pos = 0,
                           ![p].visited = << >>,
                           ![p].result = NoResult ]
    /\ UNCHANGED <<database, clock, calls, cvars, svars, evars, hvars, nvars, pvars>>

\* one iteration of   for (const [audioId, storedData] of this.database.entries())
ScanEntry(p) ==
    /\ Quiet(p)
    /\ req[p].pc = "scanning"
    /\ req[p].pos < Len(database)
    /\ LET visited == Append(req[p].visited, database[req[p].pos + 1])
           st == ScanLoop(visited, Len(visited), req[p].fingerprint, req[p].userId)
       IN  req' = [ req EXCEPT ![p].pos = req[p].pos + 1,
                               ![p].visited = visited,
                               ![p].result = [ match |-> st.bestMatch,
                                               confidence |-> st.bestScore,
                                               allScores |-> st.allScores ] ]
    /\ UNCHANGED <<database, clock, calls, cvars, svars, evars, hvars, nvars, pvars>>

\* a return that also removes the entry it matched
ScanEnd_Evicts(p) ==
    /\ Quiet(p)
    /\ req[p].pc = "scanning"
    /\ req[p].pos >= Len(database)
    /\ LET result == matchAudio(req[p].visited, req[p].fingerprint,
                                req[p].threshold, req[p].userId)
       IN  /\ req' = [ req EXCEPT ![p].pc = "match_done", ![p].result = result ]
           /\ database' = MapDelete(database, result.match)
    /\ UNCHANGED <<clock, calls, cvars, svars, evars, hvars, nvars, pvars>>

\* the iterator is exhausted: the sort, the threshold test and the return
ScanEnd(p) ==
    /\ Quiet(p)
    /\ req[p].pc = "scanning"
    /\ req[p].pos >= Len(database)
    /\ req' = [ req EXCEPT ![p].pc = "match_done",
                           ![p].result = matchAudio(req[p].visited, req[p].fingerprint,
                                                    req[p].threshold, req[p].userId) ]
    /\ UNCHANGED <<database, clock, calls, cvars, svars, evars, hvars, nvars, pvars>>

NextScan ==
    \/ \E p \in Slots, audioId \in AudioIds, userId \in UserIds :
          Quiet(p) /\ StoreCall(p, audioId, userId)
    \/ \E p \in Slots, fingerprint \in StoredFPs : Quiet(p) /\ StoreResume(p, fingerprint)
    \/ \E audioId \in AudioIds : (\A q \in Slots : ~Occupies(q)) /\ DeleteAudio(audioId)
    \/ \E p \in Slots, userId \in UserIdArgs : Quiet(p) /\ MatchCall(p, PairScore, userId)
    \/ \E p \in Slots, unknownFingerprint \in QueryFPs : ScanStart(p, unknownFingerprint)
    \/ \E p \in Slots : ScanEntry(p)
    \/ \E p \in Slots : ScanEnd(p)

SpecScan == InitScan /\ [][NextScan]_vars

----------------------------------------------------------------------------
(* SpecHandler: the handler of POST /api/audio/match, with the device      *)
(* registry it notifies through.  Requests are served one after another;   *)
(* devices are registered and removed while a request waits.               *)

MaxRequests == 2      \* match requests served in one run

\* 0.85, the threshold used when the request gives none
DefaultThreshold == 85 * ES

\* push tokens: one that Expo.isExpoPushToken accepts and one that it rejects
ValidToken == "ExponentPushToken[x]"
InvalidToken == "not-a-push-token"
isExpoPushToken(token) == token = ValidToken

\* audioFilePath values: a path to no file, a file that cannot be decoded, a recording
MissingFile == "missing.mp3"
BrokenFile == "broken.mp3"
ClipFile == "clip.mp3"
existsSync(path) == path \in { BrokenFile, ClipFile }

\* a number of the request body: absent is << >>, the number n is << n >>
NoNumber == << >>
RequestThresholds == { NoNumber, << 0 >>, << PairScore >> }

RequestBodies ==
    [ audioFilePath : { Undefined, MissingFile, BrokenFile, ClipFile },
      threshold : RequestThresholds,
      userId : { Undefined } \cup UserIds,
      matchOwnOnly : BOOLEAN ]

\* threshold || 0.85
ThresholdArg(threshold) ==
    IF threshold = NoNumber \/ threshold[1] = 0 THEN DefaultThreshold ELSE threshold[1]

\* (matchOwnOnly && userId) ? userId : null
FilterUserId(matchOwnOnly, userId) ==
    IF matchOwnOnly /\ Truthy(userId) THEN userId ELSE Null

NoPush == << >>
NoResponse == [ status |-> 0, match |-> Null, confidence |-> 0, allScores |-> << >> ]
ErrorResponse(status) == [ NoResponse EXCEPT !.status = status ]

\* the two res.json calls at the end of the handler
MatchResponse(result) ==
    IF Truthy(result.match)
    THEN [ status |-> 200, match |-> result.match, confidence |-> result.confidence,
           allScores |-> result.allScores ]
    ELSE [ status |-> 200, match |-> Null, confidence |-> result.confidence,
           allScores |-> result.allScores ]

IdleHandler ==
    [ pc |-> "idle",
      body |-> [ audioFilePath |-> Undefined, threshold |-> NoNumber,
                 userId |-> Undefined, matchOwnOnly |-> FALSE ],
      result |-> NoResult, notified |-> FALSE, pushed |-> NoPush,
      response |-> NoResponse ]

\* libraries the requests are served from: empty, two users' recordings, and
\* a first-version entry next to a user's recording
HandlerLibraries ==
    { << >>,
      << [ audioId |-> "a", data |-> NewData(<<2>>, "u1", 1) ],
         [ audioId |-> "b", data |-> NewData(<<3>>, "u2", 2) ] >>,
      << [ audioId |-> "a", data |-> OldData(<<2>>) ],
         [ audioId |-> "b", data |-> NewData(<<3>>, "u1", 1) ] >> }

\* device_tokens.json as loadDeviceTokens finds it: no device, or a device of
\* u1 with a token of either kind (the file is not validated)
LoadableTokens ==
    { [ u \in UserIds |-> Undefined ] }
      \cup { [ u \in UserIds |-> IF u = "u1" THEN t ELSE Undefined ] :
               t \in { ValidToken, InvalidToken } }

InitHandler ==
    /\ IdleCompare /\ IdleSelf /\ IdleExtract /\ IdleSensor /\ IdlePersist
    /\ database \in HandlerLibraries
    /\ clock = 3 /\ calls = 0 /\ req = << >>
    /\ deviceTokens \in LoadableTokens
    /\ handler = IdleHandler
    /\ served = 0

\* POST /api/notifications/register
RegisterDevice(userId, pushToken) ==
    /\ IF Truthy(userId) /\ Truthy(pushToken) /\ isExpoPushToken(pushToken)
       THEN deviceTokens' = [ deviceTokens EXCEPT ![userId] = pushToken ]
       ELSE UNCHANGED deviceTokens
    /\ UNCHANGED <<handler, served, mvars, cvars, svars, evars, nvars, pvars>>

\* DELETE /api/notifications/device/:userId
RemoveDevice(userId) ==
    /\ deviceTokens' = [ deviceTokens EXCEPT ![userId] = Undefined ]
    /\ UNCHANGED <<handler, served, mvars, cvars, svars, evars, nvars, pvars>>

\* the handler up to   await fingerprinter.matchAudio(...)   or to a 400 / 404
HandlerCall(body) ==
    /\ handler.pc \in { "idle", "done" }
    /\ served < MaxRequests
    /\ served' = served + 1
    /\ handler' =
          IF ~Truthy(body.audioFilePath)
          THEN [ IdleHandler EXCEPT !.pc = "done", !.body = body,
                                    !.response = ErrorResponse(400) ]
          ELSE IF ~existsSync(body.audioFilePath)
          THEN [ IdleHandler EXCEPT !.pc = "done", !.body = body,
                                    !.response = ErrorResponse(404) ]
          ELSE [ IdleHandler EXCEPT !.pc = "match_await", !.body = body ]
    /\ UNCHANGED <<deviceTokens, mvars, cvars, svars, evars, nvars, pvars>>

\* matchAudio rejects (the file cannot be converted or decoded): catch, 500
HandlerMatchFails ==
    /\ handler.pc = "match_await"
    /\ handler.body.audioFilePath = BrokenFile
    /\ handler' = [ handler EXCEPT !.pc = "done", !.response = ErrorResponse(500) ]
    /\ UNCHANGED <<deviceTokens, served, mvars, cvars, svars, evars, nvars, pvars>>

\* matchAudio resolves; sendPushNotification up to its await, or, when nothing
\* is to be sent, the handler up to its response
HandlerMatched(unknownFingerprint) ==
    /\ handler.pc = "match_await"
    /\ handler.body.audioFilePath = ClipFile
    /\ LET body == handler.body
           result == matchAudio(database, unknownFingerprint,
                                ThresholdArg(body.threshold),
                                FilterUserId(body.matchOwnOnly, body.userId))
           notify == Truthy(result.match) /\ Truthy(body.userId)
           pushToken == deviceTokens[body.userId]
       IN  IF notify /\ Truthy(pushToken) /\ isExpoPushToken(pushToken)
           THEN handler' = [ handler EXCEPT
                               !.pc = "push_await", !.result = result,
                               !.notified = TRUE,
                               !.pushed = << [ to |-> pushToken, userId |-> body.userId,
                                               matchId |-> result.match,
                                               confidence |-> result.confidence ] >> ]
           ELSE handler' = [ handler EXCEPT
                               !.pc = "done", !.result = result,
                               !.notified = notify,
                               !.response = MatchResponse(result) ]
    /\ UNCHANGED <<deviceTokens, served, mvars, cvars, svars, evars, nvars, pvars>>

\* expo.sendPushNotificationsAsync settles (ticket or caught error); the
\* handler responds
PushSettled ==
    /\ handler.pc = "push_await"
    /\ handler' = [ handler EXCEPT !.pc = "done",
                                   !.response = MatchResponse(handler.result) ]
    /\ UNCHANGED <<deviceTokens, served, mvars, cvars, svars, evars, nvars, pvars>>

NextHandler ==
    \/ \E userId \in UserIds, pushToken \in { ValidToken, InvalidToken } :
          RegisterDevice(userId, pushToken)
    \/ \E userId \in UserIds : RemoveDevice(userId)
    \/ \E body \in RequestBodies : HandlerCall(body)
    \/ HandlerMatchFails
    \/ \E unknownFingerprint \in QueryFPs : HandlerMatched(unknownFingerprint)
    \/ PushSettled

SpecHandler == InitHandler /\ [][NextHandler]_vars

----------------------------------------------------------------------------
(* extractFeatures.                                                        *)
(*                                                                         *)
(* The sample buffer is held as its length and the identity of its         *)
(* content; a slice of it, the windowed slice, its spectrum and every      *)
(* feature computed from them are held as the expression that produced     *)
(* them, <<function, arguments...>>: the helper functions read nothing but *)
(* their arguments, so equal expressions are equal values.  The window     *)
(* arithmetic (loop bounds, slice bounds, hop) is carried out on integers. *)

windowSize == 512
hopSize == 2048

\* the number literal n
Number(n) == << "Number", n >>

\* let prevSpectrum = null
NoSpectrum == << >>

\* Float32Array.prototype.slice(begin, end): both ends are clamped to the length
slice(samples, begin, end) ==
    LET from == Min(begin, samples.length)
        to == Max(from, Min(end, samples.length))
    IN  << "slice", samples.content, from, to >>

applyHannWindow(samples) == << "applyHannWindow", samples >>
simpleFFT(samples) == << "simpleFFT", samples >>
calculateEnergy(samples) == << "calculateEnergy", samples >>
calculateZeroCrossingRate(samples) == << "calculateZeroCrossingRate", samples >>
calculateSpectralCentroid(spectrum, sampleRate) ==
    << "calculateSpectralCentroid", spectrum, sampleRate >>
calculateSpectralFluxBetween(spectrum1, spectrum2) ==
    << "calculateSpectralFluxBetween", spectrum1, spectrum2 >>
calculateSpectralRolloff(spectrum, sampleRate) ==
    << "calculateSpectralRolloff", spectrum, sampleRate >>

\* spectrum.length for a spectrum returned by simpleFFT:
\* numBins = Math.min(128, Math.floor(N / 2)), N the length of the window
SpectrumLength(spectrum) ==
    LET window == spectrum[2][2]
        N == window[4] - window[3]
    IN  Min(128, N \div 2)

\* Math.floor((freq / nyquist) * spectrumSize), with nyquist = sampleRate / 2.
\* The multiplication by spectrumSize (a power of two) is exact and the
\* quotient is either a multiple of 1/128 or further from one than the
\* rounding of the division, so the binary64 result is that of the fraction.
FloorBin(freq, sampleRate, spectrumSize) == (2 * freq * spectrumSize) \div sampleRate

\* Math.ceil((freq / nyquist) * spectrumSize)
CeilBin(freq, sampleRate, spectrumSize) ==
    (2 * freq * spectrumSize + sampleRate - 1) \div sampleRate

\* energy += spectrum[i] * spectrum[i]  for  startBin <= i < endBin
SumOfSquares(spectrum, startBin, endBin) == << "sumOfSquares", spectrum, startBin, endBin >>

\* the sum is divided by the number of bins summed
getBandEnergy_DividedByCount(spectrum, lowFreq, highFreq, sampleRate) ==
    LET spectrumSize == SpectrumLength(spectrum)
        startBin == Max(0, FloorBin(lowFreq, sampleRate, spectrumSize))
        endBin == Min(CeilBin(highFreq, sampleRate, spectrumSize), spectrumSize)
    IN  IF startBin >= endBin THEN Number(0)
        ELSE << "sqrt", << "divide", SumOfSquares(spectrum, startBin, endBin),
                           endBin - startBin >> >>

getBandEnergy(spectrum, lowFreq, highFreq, sampleRate) ==
    LET spectrumSize == SpectrumLength(spectrum)
        lowBin == FloorBin(lowFreq, sampleRate, spectrumSize)
        highBin == CeilBin(highFreq, sampleRate, spectrumSize)
        startBin == Max(0, lowBin)
        endBin == Min(highBin, spectrumSize)
    IN  IF startBin >= endBin THEN Number(0)
        ELSE << "sqrt", << "divide", SumOfSquares(spectrum, startBin, endBin),
                           endBin - startBin + 1 >> >>

SpectralFlux_AlwaysComputed(spectrum, prev) == calculateSpectralFluxBetween(spectrum, prev)

\* prevSpectrum ? this.calculateSpectralFluxBetween(spectrum, prevSpectrum) : 0
SpectralFlux(spectrum, prev) ==
    IF prev # NoSpectrum THEN calculateSpectralFluxBetween(spectrum, prev)
    ELSE Number(0)

\* the feature vector of one window
WindowFeatures(window, spectrum, prev, sampleRate) ==
    [ energy |-> calculateEnergy(window),
      zcr |-> calculateZeroCrossingRate(window),
      spectralCentroid |-> calculateSpectralCentroid(spectrum, sampleRate),
      spectralFlux |-> SpectralFlux(spectrum, prev),
      spectralRolloff |-> calculateSpectralRolloff(spectrum, sampleRate),
      subBass |-> getBandEnergy(spectrum, 20, 60, sampleRate),
      bass |-> getBandEnergy(spectrum, 60, 250, sampleRate),
      lowMid |-> getBandEnergy(spectrum, 250, 500, sampleRate),
      mid |-> getBandEnergy(spectrum, 500, 2000, sampleRate),
      highMid |-> getBandEnergy(spectrum, 2000, 4000, sampleRate),
      presence |-> getBandEnergy(spectrum, 4000, 6000, sampleRate),
      brilliance |-> getBandEnergy(spectrum, 6000, 20000, sampleRate) ]

LoopContinues_FirstAlways(i, length) == i = 0 \/ i < length - windowSize

\* the loop condition   i < samples.length - windowSize
LoopContinues(i, length) == i < length - windowSize

PrevSpectrumAtEntry_Kept(prev) == prev

\* let prevSpectrum = null: a local of the call, whatever earlier calls left
PrevSpectrumAtEntry(prev) == NoSpectrum

\* the spectrum of the first window stays the previous one
PrevSpectrumAfter_FirstKept(spectrum, prev) == IF prev = NoSpectrum THEN spectrum ELSE prev

\* prevSpectrum = spectrum, at the end of every iteration
PrevSpectrumAfter(spectrum, prev) == spectrum

MaxHops == 2            \* buffers of up to windowSize + MaxHops * hopSize + 1 samples
\* the calls of extractFeatures followed in one run: a first and a second
ExtractionCalls == { 1, 2 }

\* buffer lengths: empty, one sample, and one less than, exactly and one more
\* than a whole number of hops plus a window
BufferLengths ==
    { 0, 1 } \cup { windowSize + k * hopSize + d : k \in 0 .. MaxHops, d \in { -1, 0, 1 } }
Contents == { "x", "y" }
SampleRates == { 8000, 16000, 44100 }

\* audioData: channelData[0] (length and content) and sampleRate
AudioInputs == [ length : BufferLengths, content : Contents, sampleRate : SampleRates ]
NoAudio == [ length |-> 0, content |-> "x", sampleRate |-> 44100 ]

InitExtract ==
    /\ IdleCompare /\ IdleSelf /\ IdleServer /\ IdleHandlers /\ IdleSensor /\ IdlePersist
    /\ audioData = NoAudio
    /\ epc = "idle"
    /\ windowStart = 0
    /\ prevSpectrum = NoSpectrum
    /\ extracted = << >>
    /\ extractions = << >>

\* extractFeatures(audioData) up to the loop
ExtractCall(input) ==
    /\ epc \in { "idle", "done", "stored" }
    /\ Len(extractions) < Cardinality(ExtractionCalls)
    /\ audioData' = input
    /\ windowStart' = 0
    /\ prevSpectrum' = PrevSpectrumAtEntry(prevSpectrum)
    /\ extracted' = << >>
    /\ epc' = "loop"
    /\ UNCHANGED <<extractions, cvars, svars, mvars, hvars, nvars, pvars>>

\* one iteration of the loop
ExtractWindow ==
    /\ epc = "loop"
    /\ LoopContinues(windowStart, audioData.length)
    /\ LET window == applyHannWindow(slice(audioData, windowStart, windowStart + windowSize))
           spectrum == simpleFFT(window)
       IN  /\ extracted' = Append(extracted,
                  WindowFeatures(window, spectrum, prevSpectrum, audioData.sampleRate))
           /\ prevSpectrum' = PrevSpectrumAfter(spectrum, prevSpectrum)
    /\ windowStart' = windowStart + hopSize
    /\ UNCHANGED <<audioData, epc, extractions, cvars, svars, mvars, hvars, nvars, pvars>>

\* the loop ends; return fingerprint
ExtractReturn ==
    /\ epc = "loop"
    /\ ~LoopContinues(windowStart, audioData.length)
    /\ epc' = "done"
    /\ extractions' = Append(extractions,
                             [ audioData |-> audioData, fingerprint |-> extracted,
                               database |-> database ])
    /\ UNCHANGED <<audioData, windowStart, prevSpectrum, extracted, cvars, svars, mvars, hvars, nvars, pvars>>

\* storeAudio after generateFingerprint: this.database.set(audioId, {...})
StoreExtracted(audioId, userId) ==
    /\ epc = "done"
    /\ database' = MapSet(database, audioId, NewData(extracted, userId, clock))
    /\ clock' = clock + 1
    /\ epc' = "stored"
    /\ UNCHANGED <<calls, req, audioData, windowStart, prevSpectrum, extracted,
                   extractions, cvars, svars, hvars, nvars, pvars>>

\* deleteAudio(audioId) of an entry stored
DeleteExtracted(audioId) ==
    /\ epc = "stored"
    /\ \E k \in 1 .. Len(database) : database[k].audioId = audioId
    /\ database' = MapDelete(database, audioId)
    /\ UNCHANGED <<clock, calls, req, evars, cvars, svars, hvars, nvars, pvars>>

NextExtract ==
    \/ \E input \in AudioInputs : ExtractCall(input)
    \/ ExtractWindow
    \/ ExtractReturn
    \/ \E audioId \in AudioIds : StoreExtracted(audioId, "u1")
    \/ \E audioId \in AudioIds : DeleteExtracted(audioId)

SpecExtract == InitExtract /\ [][NextExtract]_vars

----------------------------------------------------------------------------
(* SpecPersist: the handlers that change the library (POST                 *)
(* /api/audio/fingerprint, POST /api/audio/upload, DELETE                  *)
(* /api/audio/fingerprint/:id) and the database file at DB_PATH.  A        *)
(* handler runs up to its next await in one step.  The continuation of     *)
(* await storeAudio(...) is a microtask: between the set of storeAudio and *)
(* the saveDatabase of its handler other continuations may run, but no new *)
(* request and no ffmpeg event is handled.                                 *)

\* the requests received in one run: a first, a second and a third
ChangeRequests == { 1, 2, 3 }

\* the file at DB_PATH: absent, or holding a JSON text
NoFile == [ exists |-> FALSE, text |-> << >> ]
FileWith(text) == [ exists |-> TRUE, text |-> text ]

\* JSON.stringify of one value of the Map: an old-format entry is an array,
\* a new-format one an object, from which a member that is undefined is left out
StringifyData(data) ==
    IF data.format = "old" THEN << "array", data.fingerprint >>
    ELSE IF data.userId = Undefined
         THEN << "object", [ fingerprint |-> data.fingerprint,
                             timestamp |-> data.timestamp ] >>
         ELSE << "object", [ fingerprint |-> data.fingerprint, userId |-> data.userId,
                             timestamp |-> data.timestamp ] >>

\* JSON.stringify(Array.from(this.database.entries()))
stringify(db) == [ k \in 1 .. Len(db) |-> << db[k].audioId, StringifyData(db[k].data) >> ]

\* the value of the Map that JSON.parse gives back
ParseData(json) ==
    IF json[1] = "array" THEN OldData(json[2])
    ELSE NewData(json[2].fingerprint,
                 IF "userId" \in DOMAIN json[2] THEN json[2].userId ELSE Undefined,
                 json[2].timestamp)

\* new Map(JSON.parse(data)): the pairs are set one after another
RECURSIVE MapOfPairs(_, _)
MapOfPairs(pairs, n) ==
    IF n = 0 THEN << >>
    ELSE MapSet(MapOfPairs(pairs, n - 1), pairs[n][1], ParseData(pairs[n][2]))

\* loadDatabase(filepath): the Map after it, starting from the empty one
loadDatabase(file) ==
    IF file.exists THEN MapOfPairs(file.text, Len(file.text)) ELSE << >>

\* the file is written without the last entry
saveDatabase_DropsLast(db) == FileWith(stringify(SubSeq(db, 1, Len(db) - 1)))

\* saveDatabase(filepath): the file after fs.writeFileSync succeeded
saveDatabase(db) == FileWith(stringify(db))

\* the files found at startup: none, or one written by either version
LoadableFiles == { NoFile } \cup { FileWith(stringify(db)) : db \in LoadableDatabases }

\* audio files: req.file of an upload (absent, or stored under its name) and
\* the audioFilePath of a store request
NoUpload == Undefined
ClipRecording == "clip.m4a"
BrokenRecording == "broken.m4a"
UploadFiles == { NoUpload, ClipFile, BrokenFile, ClipRecording, BrokenRecording }
StorePaths == { Undefined, MissingFile, BrokenFile, ClipFile }

\* path.extname(req.file.filename).toLowerCase() !== '.mp3'
NeedsConversion(file) == file \in { ClipRecording, BrokenRecording }
\* ffmpeg and the decoder fail on the broken files
Decodable(file) == file \in { ClipFile, ClipRecording }

PersistSlots == { 1, 2 }
IdleRequest ==
    [ kind |-> "none", pc |-> "idle", file |-> Undefined, audioId |-> Undefined,
      userId |-> Undefined, status |-> 0, failure |-> "none",
      stored |-> FALSE, saved |-> FALSE, deleted |-> FALSE ]

InitPersist ==
    /\ IdleCompare /\ IdleSelf /\ IdleExtract /\ IdleHandlers /\ IdleSensor
    /\ disk \in LoadableFiles
    /\ database = loadDatabase(disk)
    /\ clock = 2
    /\ calls = 0
    /\ req = << >>
    /\ requests = [ p \in PersistSlots |-> IdleRequest ]
    /\ writeFailed = FALSE

Vacant(p) == requests[p].pc \in { "idle", "done" }
FirstVacant(p) == Vacant(p) /\ \A q \in PersistSlots : q < p => ~Vacant(q)

\* no continuation of an await is waiting to run
NoMicrotask == \A q \in PersistSlots : requests[q].pc # "stored"

\* a request is received: the next event is handled
Received(p) ==
    /\ NoMicrotask
    /\ FirstVacant(p)
    /\ calls < Cardinality(ChangeRequests)
    /\ calls' = calls + 1

\* the handler responds and is over; the request is kept as its kind, what
\* it did to the library and the file, and its response
Respond(request, status, failure) ==
    [ request EXCEPT !.pc = "done", !.status = status, !.failure = failure,
                     !.file = Undefined, !.audioId = Undefined, !.userId = Undefined ]

\* POST /api/audio/fingerprint up to   await fingerprinter.storeAudio(...)
\* (storeAudio up to   await this.generateFingerprint(audioPath))
StoreRequest(p, audioFilePath, audioId, userId) ==
    /\ Received(p)
    /\ LET request == [ IdleRequest EXCEPT !.kind = "store", !.file = audioFilePath,
                                           !.audioId = audioId, !.userId = userId ]
       IN  requests' = [ requests EXCEPT ![p] =
              IF ~Truthy(audioFilePath) \/ ~Truthy(audioId) \/ ~Truthy(userId)
              THEN Respond(request, 400, "invalid")
              ELSE IF ~existsSync(audioFilePath) THEN Respond(request, 404, "missing")
              ELSE [ request EXCEPT !.pc = "fingerprinting" ] ]
    /\ UNCHANGED <<database, clock, req, disk, writeFailed, cvars, svars, evars, hvars, nvars>>

\* POST /api/audio/upload up to its first await: of ffmpeg for a file that
\* is not an MP3, of storeAudio otherwise
UploadRequest(p, file, audioId, userId) ==
    /\ Received(p)
    /\ LET request == [ IdleRequest EXCEPT !.kind = "upload", !.file = file,
                                           !.audioId = audioId, !.userId = userId ]
       IN  requests' = [ requests EXCEPT ![p] =
              IF file = NoUpload THEN Respond(request, 400, "invalid")
              ELSE IF ~Truthy(audioId) \/ ~Truthy(userId) THEN Respond(request, 400, "invalid")
              ELSE IF NeedsConversion(file) THEN [ request EXCEPT !.pc = "converting" ]
              ELSE [ request EXCEPT !.pc = "fingerprinting" ] ]
    /\ UNCHANGED <<database, clock, req, disk, writeFailed, cvars, svars, evars, hvars, nvars>>

\* ffmpeg 'end': the conversion to MP3 is complete; storeAudio is called
ConversionEnds(p) ==
    /\ NoMicrotask
    /\ requests[p].pc = "converting"
    /\ Decodable(requests[p].file)
    /\ requests' = [ requests EXCEPT ![p].pc = "fingerprinting" ]
    /\ UNCHANGED <<mvars, disk, writeFailed, cvars, svars, evars, hvars, nvars>>

\* ffmpeg 'error': reject(err); the catch of the handler answers 500
ConversionFails(p) ==
    /\ NoMicrotask
    /\ requests[p].pc = "converting"
    /\ ~Decodable(requests[p].file)
    /\ requests' = [ requests EXCEPT ![p] = Respond(requests[p], 500, "conversion") ]
    /\ UNCHANGED <<mvars, disk, writeFailed, cvars, svars, evars, hvars, nvars>>

\* a failed generation leaves an entry with an empty fingerprint behind
FingerprintFails_StoresEmpty(p) ==
    /\ requests[p].pc = "fingerprinting"
    /\ ~Decodable(requests[p].file)
    /\ database' = MapSet(database, requests[p].audioId,
                          NewData(<< >>, requests[p].userId, clock))
    /\ requests' = [ requests EXCEPT ![p] = Respond(requests[p], 500, "fingerprint") ]
    /\ UNCHANGED <<clock, calls, req, disk, writeFailed, cvars, svars, evars, hvars, nvars>>

\* generateFingerprint throws (transcode or decode error): storeAudio rejects
\* and the catch of the handler answers 500
FingerprintFails(p) ==
    /\ requests[p].pc = "fingerprinting"
    /\ ~Decodable(requests[p].file)
    /\ requests' = [ requests EXCEPT ![p] = Respond(requests[p], 500, "fingerprint") ]
    /\ UNCHANGED <<mvars, disk, writeFailed, cvars, svars, evars, hvars, nvars>>

\* generateFingerprint resolves: this.database.set(audioId, {...}); return
FingerprintResolves(p, fingerprint) ==
    /\ requests[p].pc = "fingerprinting"
    /\ Decodable(requests[p].file)
    /\ database' = MapSet(database, requests[p].audioId,
                          NewData(fingerprint, requests[p].userId, clock))
    /\ clock' = clock + 1
    /\ requests' = [ requests EXCEPT ![p].pc = "stored", ![p].stored = TRUE ]
    /\ UNCHANGED <<calls, req, disk, writeFailed, cvars, svars, evars, hvars, nvars>>

\* after await storeAudio: fingerprinter.saveDatabase(DB_PATH); res.json(...);
\* when fs.writeFileSync throws, the catch of the handler answers 500
SaveAfterStore(p, written) ==
    /\ requests[p].pc = "stored"
    /\ IF written
       THEN /\ disk' = saveDatabase(database)
            /\ requests' = [ requests EXCEPT ![p] =
                               Respond([ requests[p] EXCEPT !.saved = TRUE ], 200, "none") ]
            /\ UNCHANGED writeFailed
       ELSE /\ writeFailed' = TRUE
            /\ requests' = [ requests EXCEPT ![p] = Respond(requests[p], 500, "write") ]
            /\ UNCHANGED disk
    /\ UNCHANGED <<mvars, cvars, svars, evars, hvars, nvars>>

\* DELETE /api/audio/fingerprint/:id, the whole handler
DeleteRequest(p, audioId, written) ==
    /\ Received(p)
    /\ LET deleted == \E k \in 1 .. Len(database) : database[k].audioId = audioId
           request == [ IdleRequest EXCEPT !.kind = "delete", !.audioId = audioId,
                                           !.deleted = deleted ]
       IN  /\ database' = MapDelete(database, audioId)
           /\ IF ~deleted
              THEN /\ written
                   /\ requests' = [ requests EXCEPT ![p] = Respond(request, 404, "missing") ]
                   /\ UNCHANGED <<disk, writeFailed>>
              ELSE IF written
              THEN /\ disk' = saveDatabase(database')
                   /\ requests' = [ requests EXCEPT ![p] =
                                      Respond([ request EXCEPT !.saved = TRUE ], 200, "none") ]
                   /\ UNCHANGED writeFailed
              ELSE /\ writeFailed' = TRUE
                   /\ requests' = [ requests EXCEPT ![p] = Respond(request, 500, "write") ]
                   /\ UNCHANGED disk
    /\ UNCHANGED <<clock, req, cvars, svars, evars, hvars, nvars>>

NextPersist ==
    \/ \E p \in PersistSlots, audioFilePath \in StorePaths, audioId \in AudioIds,
          userId \in { Undefined, "u1" } :
          StoreRequest(p, audioFilePath, audioId, userId)
    \/ \E p \in PersistSlots, file \in UploadFiles, audioId \in AudioIds,
          userId \in { Undefined, "u2" } :
          UploadRequest(p, file, audioId, userId)
    \/ \E p \in PersistSlots : ConversionEnds(p)
    \/ \E p \in PersistSlots : ConversionFails(p)
    \/ \E p \in PersistSlots : FingerprintFails(p)
    \/ \E p \in PersistSlots, fingerprint \in StoredFPs : FingerprintResolves(p, fingerprint)
    \/ \E p \in PersistSlots, written \in BOOLEAN : SaveAfterStore(p, written)
    \/ \E p \in PersistSlots, audioId \in AudioIds, written \in BOOLEAN :
          DeleteRequest(p, audioId, written)

SpecPersist == InitPersist /\ [][NextPersist]_vars

----------------------------------------------------------------------------
(* SpecSensor: the sensor screen of the phone                              *)
(* (src/iphone-sensor/app/(tabs)/sensor.tsx).                              *)
(*                                                                         *)
(* Times are in ms, as read from Date.now(); a sound level is an integer   *)
(* in units of 0.001.  processAudioChunk is synchronous, and so is         *)
(* triggerUpload up to the first await inside convertAndUpload: one chunk  *)
(* is one step.  The upload then proceeds on its own and settles later.    *)

SAMPLE_RATE == 16000
BUFFER_DURATION_MS == 3000
TRIGGER_THRESHOLD == 300     \* 0.3
COOLDOWN_MS == 1500

MaxElapsed == 3300           \* the run is followed for this many ms

\* the run starts at some date later than COOLDOWN_MS after the epoch
FirstDate == 2 * COOLDOWN_MS

\* the time that passes between two events
Delays == { 700, 800 }
\* what a second reading of Date.now() in the same handler adds to the first
Jitter == { 0, 1 }
\* the level of a chunk: at the threshold, and just above it
Levels == { TRIGGER_THRESHOLD, TRIGGER_THRESHOLD + 1 }
\* pcmData.length: 100 ms of audio at SAMPLE_RATE
ChunkSamples == { SAMPLE_RATE \div 10 }

\* Math.ceil((SAMPLE_RATE * BUFFER_DURATION_MS) / (pcmData.length * 1000))
maxChunks(length) ==
    ((SAMPLE_RATE * BUFFER_DURATION_MS) + (length * 1000) - 1) \div (length * 1000)

\* audioBuffer.current.push(pcmData); while (length > maxChunks) shift()
RECURSIVE ShiftDownTo(_, _)
ShiftDownTo(buffer, limit) ==
    IF Len(buffer) > limit THEN ShiftDownTo(Tail(buffer), limit) ELSE buffer

\* level > TRIGGER_THRESHOLD
Exceeds(level) == level > TRIGGER_THRESHOLD

\* the cooldown is 100 ms shorter
CooldownOver_Shorter(current, last) == current - last >= COOLDOWN_MS - 100

\* timeSinceLastUpload >= COOLDOWN_MS
CooldownOver(current, last) == current - last >= COOLDOWN_MS

InitSensor ==
    /\ IdleCompare /\ IdleSelf /\ IdleServer /\ IdleExtract /\ IdleHandlers /\ IdlePersist
    /\ dateNow = FirstDate
    /\ lastUploadTime = 0
    /\ audioBuffer = << >>
    /\ streamingSubscription = FALSE
    /\ isProcessing = FALSE
    /\ uploads = << >>

\* time passes
Tick(delay) ==
    /\ dateNow + delay <= FirstDate + MaxElapsed
    /\ dateNow' = dateNow + delay
    /\ UNCHANGED <<lastUploadTime, audioBuffer, streamingSubscription, isProcessing,
                   uploads, cvars, svars, mvars, evars, hvars, pvars>>

\* startStreaming, permission granted: subscribe, audioBuffer.current = []
StartStreaming ==
    /\ ~streamingSubscription
    /\ streamingSubscription' = TRUE
    /\ audioBuffer' = << >>
    /\ UNCHANGED <<dateNow, lastUploadTime, isProcessing, uploads,
                   cvars, svars, mvars, evars, hvars, pvars>>

\* stopStreaming: the subscription is removed, audioBuffer.current = []
StopStreaming ==
    /\ streamingSubscription
    /\ streamingSubscription' = FALSE
    /\ audioBuffer' = << >>
    /\ UNCHANGED <<dateNow, lastUploadTime, isProcessing, uploads,
                   cvars, svars, mvars, evars, hvars, pvars>>

\* processAudioChunk(event) for a chunk of the given length and level, and
\* triggerUpload up to its first await when it is called; started is what
\* Date.now() returns inside triggerUpload
ProcessAudioChunk(length, level, started) ==
    /\ streamingSubscription
    /\ audioBuffer' = ShiftDownTo(Append(audioBuffer, length), maxChunks(length))
    /\ IF Exceeds(level) /\ CooldownOver(dateNow, lastUploadTime)
       THEN /\ started >= dateNow
            /\ lastUploadTime' = started
            /\ dateNow' = started
            /\ isProcessing' = TRUE
            /\ uploads' = Append(uploads,
                   [ level |-> level, started |-> started, settled |-> FALSE ])
       ELSE /\ started = dateNow
            /\ UNCHANGED <<dateNow, lastUploadTime, isProcessing, uploads>>
    /\ UNCHANGED <<streamingSubscription, cvars, svars, mvars, evars, hvars, pvars>>

\* the upload of a trigger comes to its end (sent, or failed and reported):
\* finally { setIsProcessing(false) }
UploadSettles(k) ==
    /\ k \in 1 .. Len(uploads)
    /\ ~uploads[k].settled
    /\ uploads' = [ uploads EXCEPT ![k].settled = TRUE ]
    /\ isProcessing' = FALSE
    /\ UNCHANGED <<dateNow, lastUploadTime, audioBuffer, streamingSubscription,
                   cvars, svars, mvars, evars, hvars, pvars>>

NextSensor ==
    \/ \E delay \in Delays : Tick(delay)
    \/ StartStreaming
    \/ StopStreaming
    \/ \E length \in ChunkSamples, level \in Levels, d \in Jitter :
          ProcessAudioChunk(length, level, dateNow + d)
    \/ \E k \in 1 .. Len(uploads) : UploadSettles(k)

SpecSensor == InitSensor /\ [][NextSensor]_vars

(* Properties of matchAudio (checked under Spec).                          *)

\* the match calls that have returned
Returned == { p \in DOMAIN req : req[p].pc = "match_done" }

\* the entries of the library a returned call was entitled to score
EligibleEntries(r) ==
    { i \in 1 .. Len(r.scanned) :
        r.userId \in { Null, Undefined, EmptyString }
        \/ r.scanned[i].data.userId = r.userId }

\* the score of entry i against the query of the call
EntryScore(r, i) == compareFingerprints(r.fingerprint, r.scanned[i].data.fingerprint)

\* the best score among the eligible entries (0 when there is none)
BestEligibleScore(r) ==
    IF EligibleEntries(r) = {} THEN 0
    ELSE CHOOSE s \in { EntryScore(r, i) : i \in EligibleEntries(r) } :
           \A i \in EligibleEntries(r) : EntryScore(r, i) <= s

\* the owner reported for an entry: its userId, or 'unknown'
ReportedOwner(data) ==
    IF data.userId \in { Null, Undefined, EmptyString } THEN Unknown ELSE data.userId

\* C1: a non-null match identifier is returned only together with a
\* confidence >= the threshold passed in, and that confidence is the score of
\* the identified entry.
C1_MatchOnlyAtThreshold ==
    \A p \in Returned :
        LET r == req[p]
        IN  r.result.match # Null =>
              /\ r.result.confidence >= r.threshold
              /\ \E i \in 1 .. Len(r.scanned) :
                    /\ r.scanned[i].audioId = r.result.match
                    /\ EntryScore(r, i) = r.result.confidence

\* a match returned at a positive threshold that the confidence just reaches
C1_Witness ==
    \E p \in Returned :
        /\ req[p].result.match # Null
        /\ req[p].threshold > 0
        /\ req[p].result.confidence = req[p].threshold

\* C2 (as claimed): with a non-empty set of eligible entries, best >= threshold
\* gives the identifier of an entry with the best score, best < threshold
\* gives none.
C2_ThresholdDecides ==
    \A p \in Returned :
        LET r == req[p]
            best == BestEligibleScore(r)
        IN  EligibleEntries(r) # {} =>
              IF best >= r.threshold
              THEN \E i \in EligibleEntries(r) :
                     /\ r.result.match = r.scanned[i].audioId
                     /\ EntryScore(r, i) = best
              ELSE r.result.match = Null

\* C3: with an owner filter, the match and every element of allScores belong
\* to entries of that owner.
C3_OwnerFilter ==
    \A p \in Returned :
        LET r == req[p]
            OwnedByCaller(id, owner) ==
                /\ owner = r.userId
                /\ \E i \in 1 .. Len(r.scanned) :
                      r.scanned[i].audioId = id /\ r.scanned[i].data.userId = r.userId
        IN  Truthy(r.userId) =>
              /\ r.result.match # Null => OwnedByCaller(r.result.match, r.userId)
              /\ \A k \in 1 .. Len(r.result.allScores) :
                    OwnedByCaller(r.result.allScores[k].audioId,
                                  r.result.allScores[k].userId)

\* a filtered call returned the caller's entry although another owner's entry
\* scores higher against the query
C3_Witness ==
    \E p \in Returned :
        LET r == req[p]
        IN  /\ Truthy(r.userId)
            /\ r.result.match # Null
            /\ \E i \in 1 .. Len(r.scanned) :
                  /\ r.scanned[i].data.userId # r.userId
                  /\ EntryScore(r, i) > r.result.confidence

\* C7: the confidence is the maximum score over the eligible entries, 0 when
\* there is none, whether or not a match is returned.
C7_ConfidenceIsBest ==
    \A p \in Returned : req[p].result.confidence = BestEligibleScore(req[p])

\* no match, and yet a positive best score is reported
C7_Witness ==
    \E p \in Returned :
        /\ req[p].result.match = Null
        /\ req[p].result.confidence > 0
        /\ Cardinality(EligibleEntries(req[p])) >= 2

\* C8: allScores holds exactly one (identifier, score, owner) triple per
\* eligible entry and is ordered by non-increasing score.
C8_RankedList ==
    \A p \in Returned :
        LET r == req[p]
            list == r.result.allScores
        IN  /\ Len(list) = Cardinality(EligibleEntries(r))
            /\ \A i \in EligibleEntries(r) :
                  \E k \in 1 .. Len(list) :
                    list[k] = [ audioId |-> r.scanned[i].audioId,
                                score |-> EntryScore(r, i),
                                userId |-> ReportedOwner(r.scanned[i].data) ]
            /\ \A k \in 1 .. Len(list) - 1 : list[k].score >= list[k + 1].score

\* the sort moved a later entry of the library in front of an earlier one
C8_Witness ==
    \E p \in Returned :
        LET r == req[p]
        IN  /\ Len(r.result.allScores) = 2
            /\ r.result.allScores[1].audioId = r.scanned[2].audioId
            /\ r.result.allScores[1].score > r.result.allScores[2].score

----------------------------------------------------------------------------
(* Properties of the library under concurrent requests (checked under      *)
(* SpecScan).                                                              *)

\* the steps of matchAudio
MatchStep ==
    \/ \E p \in Slots, userId \in UserIdArgs : MatchCall(p, PairScore, userId)
    \/ \E p \in Slots, unknownFingerprint \in QueryFPs : ScanStart(p, unknownFingerprint)
    \/ \E p \in Slots : ScanEntry(p)
    \/ \E p \in Slots : ScanEnd(p)

\* C17: no step of a match call changes the library (identifiers,
\* fingerprints, owners, timestamps, order), however the calls interleave,
\* and every call returns what matchAudio gives when run alone on the
\* library as it was when the scan began, with the call's own arguments.
C17_MatchLeavesLibrary ==
    /\ [][MatchStep => database' = database]_vars
    /\ [](\A p \in Returned :
             req[p].result = matchAudio(req[p].scanned, req[p].fingerprint,
                                        req[p].threshold, req[p].userId))

\* two match calls that were in flight together have returned, one of them
\* with a match, and the library is what they scanned
C17_Witness ==
    /\ \A p \in Slots : req[p].pc = "match_done" /\ req[p].scanned = database
    /\ Len(database) >= 1
    /\ \E p \in Slots : req[p].result.match # Null

\* an entry as storeAudio writes it: fingerprint, owner and timestamp present
CompleteAt(e, now) ==
    /\ e.data.format = "new"
    /\ e.data.fingerprint \in StoredFPs
    /\ e.data.userId \in UserIds
    /\ e.data.timestamp \in 1 .. now
CompleteEntry(e) == CompleteAt(e, clock)

\* an entry as loadDatabase finds it in a file of the first version
LoadedOldEntry(e) ==
    /\ e.data.format = "old"
    /\ \E db \in LoadableDatabases : \E k \in 1 .. Len(db) : db[k] = e

\* the entries request p has scored so far (visited and not filtered out)
ScoredEntries(p) ==
    { req[p].visited[k] : k \in { j \in 1 .. Len(req[p].visited) :
                                      ~Skipped(req[p].visited[j].data, req[p].userId) } }

\* a scan in progress reads the library as it was when the scan began, and a
\* finished scan has read exactly that library
OneInstant(p) ==
    /\ req[p].pc = "scanning" =>
          /\ database = req[p].scanned
          /\ req[p].visited = SubSeq(req[p].scanned, 1, req[p].pos)
    /\ req[p].pc = "match_done" => req[p].visited = req[p].scanned

\* a step that changes the library is one whole set of a complete entry or
\* one whole delete
OneMutation ==
    database' # database =>
        \E audioId \in AudioIds :
            \/ database' = MapDelete(database, audioId)
            \/ \E k \in 1 .. Len(database') :
                  /\ database'[k].audioId = audioId
                  /\ CompleteAt(database'[k], clock')
                  /\ database' = MapSet(database, audioId, database'[k].data)

\* C16 (as claimed): every entry a scan scores is complete (fingerprint,
\* owner and timestamp all present), no store or delete takes effect between
\* the first and the last entry of a scan, and mutations are whole.
C16_CompleteSnapshot ==
    /\ [](\A p \in Slots :
             /\ OneInstant(p)
             /\ \A e \in ScoredEntries(p) : CompleteEntry(e))
    /\ [][OneMutation]_vars

\* C16 (amended): every entry a scan scores is a whole entry, either as one
\* storeAudio call wrote it (fingerprint, owner and timestamp together) or as
\* it was loaded from a first-version file (a bare fingerprint); no store or
\* delete takes effect between the first and the last entry of a scan, and
\* mutations are whole.
C16_WholeEntrySnapshot ==
    /\ [](\A p \in Slots :
             /\ OneInstant(p)
             /\ \A e \in ScoredEntries(p) : CompleteEntry(e) \/ LoadedOldEntry(e))
    /\ [][OneMutation]_vars

\* a scan is between its first and its second entry while a store is waiting
\* for its fingerprint
C16_Witness ==
    \E p, q \in Slots :
        /\ req[p].pc = "scanning" /\ req[p].pos = 1 /\ Len(database) = 2
        /\ ScoredEntries(p) # {}
        /\ req[q].pc = "store_await"

----------------------------------------------------------------------------
\* the position, in the library a call scanned, of the entry it returned
MatchPosition(r) ==
    CHOOSE i \in 1 .. Len(r.scanned) : r.scanned[i].audioId = r.result.match

\* the eligible entries that have the best score
BestEntries(r) == { i \in EligibleEntries(r) : EntryScore(r, i) = BestEligibleScore(r) }

\* C26: a non-null match identifier is the first element of the returned
\* allScores, and when several eligible entries tie for the best score the
\* one earliest in the iteration order of the library is the one returned.
C26_MatchIsFirstOfAllScores ==
    \A p \in Returned :
        LET r == req[p]
        IN  r.result.match # Null =>
              /\ r.result.allScores # << >>
              /\ r.result.allScores[1].audioId = r.result.match
              /\ MatchPosition(r) \in BestEntries(r)
              /\ \A i \in BestEntries(r) : MatchPosition(r) <= i

\* two entries tied for the best score and the one stored first, "b", was
\* returned ahead of "a"
C26_Witness ==
    \E p \in Returned :
        /\ req[p].result.match = "b"
        /\ Cardinality(BestEntries(req[p])) = 2
        /\ req[p].scanned[1].audioId = "b" /\ req[p].scanned[2].audioId = "a"
        /\ req[p].result.allScores[2].audioId = "a"

----------------------------------------------------------------------------
\* the entries of the old format in the library a call scanned
OldEntries(r) == { i \in 1 .. Len(r.scanned) : r.scanned[i].data.format = "old" }

\* the elements of allScores a call reported for entry i of its library
ReportedFor(r, i) ==
    { k \in 1 .. Len(r.result.allScores) :
        r.result.allScores[k].audioId = r.scanned[i].audioId }

\* getAllFingerprints(userId): the listing of the library, filtered by owner
\* when one is given
getAllFingerprints(db, userId) ==
    LET kept == SelectSeq(db, LAMBDA e : ~(Truthy(userId) /\ StoredUserId(e.data) # userId))
    IN  [ k \in 1 .. Len(kept) |->
            [ audioId |-> kept[k].audioId,
              userId |-> IF Truthy(StoredUserId(kept[k].data))
                         THEN StoredUserId(kept[k].data) ELSE Null,
              timestamp |-> IF kept[k].data.format = "old"
                            THEN Null ELSE << kept[k].data.timestamp >>,
              fingerprintLength |-> Len(StoredFingerprint(kept[k].data)) ] ]

\* C30: entries in the old format (a bare fingerprint with no owner) are
\* scored by matchAudio when no owner filter is given and are reported in
\* allScores with owner 'unknown'; when an owner filter is given they are
\* never scored and never returned.
C30_OldFormatEntries ==
    /\ \A p \in Returned :
          LET r == req[p]
          IN  \A i \in OldEntries(r) :
                IF Truthy(r.userId)
                THEN /\ ReportedFor(r, i) = {}
                     /\ r.result.match # r.scanned[i].audioId
                     /\ \A k \in DOMAIN getAllFingerprints(r.scanned, r.userId) :
                           getAllFingerprints(r.scanned, r.userId)[k].audioId
                               # r.scanned[i].audioId
                ELSE /\ Cardinality(ReportedFor(r, i)) = 1
                     /\ \A k \in ReportedFor(r, i) :
                           /\ r.result.allScores[k].userId = Unknown
                           /\ r.result.allScores[k].score = EntryScore(r, i)
    /\ \A p \in Slots :
          req[p].pc = "scanning" =>
              \A e \in ScoredEntries(p) : e.data.format = "old" => ~Truthy(req[p].userId)

\* one call without a filter returned an old-format entry as its match,
\* owner 'unknown', and a call with a filter scanned an old-format entry and
\* reported nothing
C30_Witness ==
    \E p, q \in Returned :
        /\ ~Truthy(req[p].userId) /\ Truthy(req[q].userId)
        /\ OldEntries(req[p]) # {} /\ OldEntries(req[q]) # {}
        /\ req[p].result.match = "a"
        /\ req[p].result.allScores[1].userId = Unknown
        /\ req[q].result.allScores = << >>

----------------------------------------------------------------------------
(* Properties of the scorer (checked under SpecCompare).                   *)

EvaluatedOffsets == { evaluated[k][1] : k \in 1 .. Len(evaluated) }
EvaluatedScores == { evaluated[k][2] : k \in 1 .. Len(evaluated) }

\* C6: a fingerprint of length 0, in either position, scores exactly 0 at
\* every offset evaluated and overall, and no frame is read.
C6_EmptyScoresZero ==
    (cpc = "done" /\ (Len(fp1) = 0 \/ Len(fp2) = 0)) =>
        /\ bestScore = 0
        /\ EvaluatedScores = { 0 }
        /\ \A off \in EvaluatedOffsets : ReadPairs(fp1, fp2, off) = {}

\* an empty fingerprint was scored against a long recording
C6_Witness == cpc = "done" /\ Len(fp1) = 0 /\ Len(fp2) >= 20

\* C9 (as claimed): offset 0 is evaluated, and the non-zero offsets evaluated
\* are symmetric about zero, multiples of 5, of magnitude <= maxOffset.
C9_SymmetricOffsets ==
    cpc = "done" =>
        /\ 0 \in EvaluatedOffsets
        /\ \A off \in EvaluatedOffsets :
              /\ -off \in EvaluatedOffsets
              /\ off % OffsetStep = 0
              /\ Abs(off) <= maxOffset(fp1, fp2)

\* C10: the result is the maximum of the scores of the offsets evaluated,
\* offset 0 is evaluated exactly once, the result is never below the
\* zero-offset score and equals it when maxOffset is 0.
C10_MaxOverOffsets ==
    cpc = "done" =>
        /\ bestScore \in EvaluatedScores
        /\ \A sc \in EvaluatedScores : sc <= bestScore
        /\ Cardinality({ k \in 1 .. Len(evaluated) : evaluated[k][1] = 0 }) = 1
        /\ bestScore >= evaluated[1][2]
        /\ evaluated[1][1] = 0
        /\ maxOffset(fp1, fp2) = 0 => bestScore = evaluated[1][2]

\* a non-zero offset scored higher than offset 0, and a lower score followed
C10_Witness ==
    /\ cpc = "done"
    /\ bestScore > evaluated[1][2]
    /\ evaluated[Len(evaluated)][2] < bestScore

----------------------------------------------------------------------------
\* b is a shifted by k windows: b[i] = a[i + k] wherever both exist
ShiftedBy(a, b, k) ==
    /\ Len(b) > 0 /\ Len(a) > k
    /\ \A i \in 1 .. Len(b) : i + k <= Len(a) => b[i] = a[i + k]

\* the shifts k the statement is about: multiples of 5, 5 <= k <= maxOffset
ClaimedShifts ==
    { k \in OffsetStep .. maxOffset(fp1, fp2) :
         /\ k % OffsetStep = 0
         /\ ShiftedBy(fp1, fp2, k) \/ ShiftedBy(fp2, fp1, k) }

\* C11 (as claimed): if one fingerprint is the other shifted by k windows, k
\* a multiple of 5 with 5 <= k <= maxOffset, compareFingerprints returns 1.0
\* and that score is attained at an evaluated offset of magnitude k.
C11_ShiftedScoresOne ==
    cpc = "done" =>
        \A k \in ClaimedShifts :
            /\ bestScore = ScoreOne
            /\ \E n \in 1 .. Len(evaluated) :
                  Abs(evaluated[n][1]) = k /\ evaluated[n][2] = ScoreOne

----------------------------------------------------------------------------
\* the overlap of the two fingerprints at an offset, as stated
Overlap(off) == Min(Len(fp1), Len(fp2)) - Abs(off)

\* the aligned pairs of frame indices (0-based) at an offset, as stated
AlignedPairs(off) ==
    { <<Max(0, off) + i, Max(0, -off) + i>> : i \in 0 .. Overlap(off) - 1 }

\* the sum of the frame-pair similarities over the pairs lo .. hi-1 of the
\* aligned pairs
RECURSIVE AlignedSum(_, _, _)
AlignedSum(off, lo, hi) ==
    IF hi <= lo THEN 0
    ELSE IF hi = lo + 1
         THEN FramePairTable[<<fp1[Max(0, off) + lo + 1], fp2[Max(0, -off) + lo + 1]>>]
    ELSE AlignedSum(off, lo, (lo + hi) \div 2) + AlignedSum(off, (lo + hi) \div 2, hi)

\* C21: at every offset evaluated, the overlap is min(len1, len2) - |offset|;
\* with no overlap the score is 0 and no frame is read; otherwise exactly the
\* pairs (fp1[max(0, offset) + i], fp2[max(0, -offset) + i]), 0 <= i < overlap,
\* are compared, and every index read is inside its fingerprint.
C21_AlignedPairsInBounds ==
    cpc = "done" =>
        \A n \in 1 .. Len(evaluated) :
            LET off == evaluated[n][1]
                score == evaluated[n][2]
                read == ReadPairs(fp1, fp2, off)
            IN  /\ Overlap(off) <= 0 => score = 0 /\ read = {}
                /\ Overlap(off) > 0 =>
                      /\ read = AlignedPairs(off)
                      /\ Cardinality(read) = Overlap(off)
                      /\ score = AlignedSum(off, 0, Overlap(off)) \div Overlap(off)
                /\ \A pair \in read :
                      /\ pair[1] \in 0 .. Len(fp1) - 1
                      /\ pair[2] \in 0 .. Len(fp2) - 1

\* fingerprints of different lengths were scored at a positive and at a
\* negative offset with different results, the last frame of the shorter
\* one being read
C21_Witness ==
    /\ cpc = "done"
    /\ Len(fp1) > Len(fp2) /\ Len(fp2) >= 100
    /\ \E m, n \in 1 .. Len(evaluated) :
          /\ evaluated[m][1] < 0 /\ evaluated[n][1] > 0
          /\ evaluated[m][2] # evaluated[n][2]
          /\ (Max(0, -evaluated[m][1]) + Overlap(evaluated[m][1]) - 1) = Len(fp2) - 1

----------------------------------------------------------------------------
\* C25 (as claimed): the similarity score is symmetric in its arguments:
\* compareFingerprints(A, B) = compareFingerprints(B, A) for all fingerprints
\* A and B of any lengths.
C25_ScoreIsSymmetric ==
    cpc = "done" => bestScore = compareFingerprints(fp2, fp1)

----------------------------------------------------------------------------
(* Properties of the binary64 self-comparison (checked under SpecSelf).    *)

\* C4 (as claimed): the score lies in the closed interval [0, 1].
C4_ScoreInUnitInterval ==
    spc = "done" => ~Less64(score64, Zero64) /\ ~Less64(One64, score64)

\* C5 (as claimed): the zero-offset score of F against itself is 1.0.
C5_SelfScoreIsOne == spc = "done" => score64 = One64

\* C5 (amended): the zero-offset score of F against itself is 1.0 up to the
\* rounding of the accumulation: |score - 1| <= 12 * F.length * 2^-52.
C5_SelfScoreNearOne ==
    spc = "done" =>
        Abs(Minus1(score64)) <= Len(FeatureOrder) * selfLen * (2 ^ 6)

\* a self-comparison whose score is not 1.0 has returned
C5_Witness == spc = "done" /\ selfLen >= 3 /\ score64 # One64

----------------------------------------------------------------------------
(* Properties of extractFeatures (checked under SpecExtract).              *)

\* the calls of extractFeatures that have returned
Extractions == { extractions[k] : k \in 1 .. Len(extractions) }

\* the slice of the buffer a feature vector was computed from
WindowSlice(features) == features.energy[2][2]

\* C12 (as claimed): a buffer of numSamples >= 512 samples yields exactly
\* floor((numSamples - 512) / 2048) + 1 feature vectors, window k covering
\* the samples [k*2048, k*2048 + 512).
C12_WindowCount ==
    \A e \in Extractions :
        e.audioData.length >= windowSize =>
            /\ Len(e.fingerprint) = ((e.audioData.length - windowSize) \div hopSize) + 1
            /\ \A k \in 1 .. Len(e.fingerprint) :
                  WindowSlice(e.fingerprint[k]) =
                      << "slice", e.audioData.content,
                         (k - 1) * hopSize, (k - 1) * hopSize + windowSize >>

\* C13: a buffer of 0 samples, or shorter than one window, yields a
\* fingerprint of length 0: the loop body never runs, the call goes straight
\* to its return and no feature is computed from a short or empty slice.
C13_ShortBufferIsEmpty ==
    /\ \A e \in Extractions :
          e.audioData.length < windowSize => e.fingerprint = << >>
    /\ (epc = "loop" /\ audioData.length < windowSize) =>
          /\ extracted = << >>
          /\ ~LoopContinues(windowStart, audioData.length)

\* an empty buffer and a buffer one sample short of a window were extracted
C13_Witness ==
    /\ \E e \in Extractions : e.audioData.length = 0 /\ e.fingerprint = << >>
    /\ \E e \in Extractions : e.audioData.length = windowSize - 1 /\ e.fingerprint = << >>

\* C14: the spectralFlux of the first feature vector of every fingerprint,
\* returned or under construction, is exactly 0, whatever was extracted
\* before.
C14_FirstFluxIsZero ==
    /\ \A e \in Extractions :
          Len(e.fingerprint) >= 1 => e.fingerprint[1].spectralFlux = Number(0)
    /\ Len(extracted) >= 1 => extracted[1].spectralFlux = Number(0)

\* a second extraction with two windows returned after a first that left a
\* spectrum behind
C14_Witness ==
    /\ Len(extractions) = 2
    /\ Len(extractions[1].fingerprint) >= 1
    /\ Len(extractions[2].fingerprint) >= 2
    /\ extractions[2].fingerprint[1].spectralFlux = Number(0)
    /\ extractions[2].fingerprint[2].spectralFlux # Number(0)

\* the steps of extractFeatures
ExtractionStep ==
    \/ \E input \in AudioInputs : ExtractCall(input)
    \/ ExtractWindow
    \/ ExtractReturn

\* C18: two calls of extractFeatures with the same sample buffer and sample
\* rate return the same feature vectors, whatever was stored, deleted or
\* extracted before or between them, and no step of an extraction changes
\* the library.
C18_ExtractionIsPure ==
    /\ [](\A e1, e2 \in Extractions :
             e1.audioData = e2.audioData => e1.fingerprint = e2.fingerprint)
    /\ [][ExtractionStep => UNCHANGED mvars]_vars

\* the same buffer was extracted twice, with two or more windows, and the
\* library was changed in between
C18_Witness ==
    /\ Len(extractions) = 2
    /\ extractions[1].audioData = extractions[2].audioData
    /\ Len(extractions[1].fingerprint) >= 2
    /\ extractions[1].database # extractions[2].database

\* the spectrum of the window of a call that starts at sample i
SpectrumAt(input, i) == simpleFFT(applyHannWindow(slice(input, i, i + windowSize)))

\* C22: within one call the feature vectors are in window (time) order, and
\* for every window k >= 1 the spectralFlux is computed from the spectrum of
\* window k and the spectrum of window k-1 of that call, never from an older
\* window or from a window of another extraction.
C22_FluxFromPreviousWindow ==
    \A e \in Extractions :
        \A k \in 1 .. Len(e.fingerprint) :
            /\ WindowSlice(e.fingerprint[k])[2] = e.audioData.content
            /\ WindowSlice(e.fingerprint[k])[3] = (k - 1) * hopSize
            /\ k >= 2 =>
                  e.fingerprint[k].spectralFlux =
                      calculateSpectralFluxBetween(
                          SpectrumAt(e.audioData, (k - 1) * hopSize),
                          SpectrumAt(e.audioData, (k - 2) * hopSize))

\* a second call, on other samples than the first, returned three or more
\* windows after a first call of two or more
C22_Witness ==
    /\ Len(extractions) = 2
    /\ extractions[1].audioData.content # extractions[2].audioData.content
    /\ Len(extractions[1].fingerprint) >= 2
    /\ Len(extractions[2].fingerprint) >= 3
    /\ extractions[2].fingerprint[3].spectralFlux # extractions[2].fingerprint[2].spectralFlux

\* the Hz range of each band, as passed by extractFeatures
BandRange ==
    [ subBass |-> <<20, 60>>, bass |-> <<60, 250>>, lowMid |-> <<250, 500>>,
      mid |-> <<500, 2000>>, highMid |-> <<2000, 4000>>, presence |-> <<4000, 6000>>,
      brilliance |-> <<6000, 20000>> ]

\* Math.round((freq / nyquist) * numBins)
RoundBin(freq, sampleRate, numBins) == (4 * freq * numBins + sampleRate) \div (2 * sampleRate)

\* the band energy over the bins first .. last-1 clamped to 0 .. numBins: the
\* squared magnitudes summed, divided by the number of bins + 1, square root;
\* 0 for an empty range
EnergyOverBins(spectrum, first, last) ==
    LET startBin == Max(0, first)
        endBin == Min(last, SpectrumLength(spectrum))
        bins == startBin .. endBin - 1
    IN  IF bins = {} THEN Number(0)
        ELSE << "sqrt", << "divide", SumOfSquares(spectrum, startBin, endBin),
                           Cardinality(bins) + 1 >> >>

\* every band feature of every window extracted satisfies R
AllBands(R(_, _, _, _)) ==
    \A e \in Extractions :
        \A k \in 1 .. Len(e.fingerprint) :
            \A band \in DOMAIN BandRange :
                R(e.fingerprint[k][band],
                  SpectrumAt(e.audioData, (k - 1) * hopSize),
                  BandRange[band], e.audioData.sampleRate)

\* C23 (as claimed): for each band and sample rate, getBandEnergy sums the
\* squared magnitudes of the bins from round((lowFreq/nyquist)*numBins) up to
\* round((highFreq/nyquist)*numBins), clamped to the valid range, divides by
\* (number of bins summed + 1) before the square root, and returns 0 when the
\* clamped range is empty.
C23_RoundedBins ==
    LET R(value, spectrum, range, sampleRate) ==
            value = EnergyOverBins(spectrum,
                        RoundBin(range[1], sampleRate, SpectrumLength(spectrum)),
                        RoundBin(range[2], sampleRate, SpectrumLength(spectrum)))
    IN  AllBands(R)

\* C23 (amended): the bins summed run from floor((lowFreq/nyquist)*numBins)
\* up to, and not including, ceil((highFreq/nyquist)*numBins), clamped to the
\* valid range; the sum is divided by (number of bins summed + 1) before the
\* square root, and the result is 0 when the clamped range is empty.
C23_FloorCeilBins ==
    LET R(value, spectrum, range, sampleRate) ==
            value = EnergyOverBins(spectrum,
                        FloorBin(range[1], sampleRate, SpectrumLength(spectrum)),
                        CeilBin(range[2], sampleRate, SpectrumLength(spectrum)))
    IN  AllBands(R)

\* windows were extracted at 8000 Hz, where the presence band is empty and the
\* brilliance band lies above the spectrum, and at 44100 Hz, where every band
\* has bins
C23_Witness ==
    /\ Len(extractions) = 2
    /\ extractions[1].audioData.sampleRate = 8000
    /\ extractions[2].audioData.sampleRate = 44100
    /\ Len(extractions[1].fingerprint) >= 1 /\ Len(extractions[2].fingerprint) >= 1
    /\ extractions[1].fingerprint[1].presence = Number(0)
    /\ extractions[1].fingerprint[1].highMid # Number(0)
    /\ \A band \in DOMAIN BandRange : extractions[2].fingerprint[1][band] # Number(0)

\* the seven frequency-band features
BandFeatures ==
    { "subBass", "bass", "lowMid", "mid", "highMid", "presence", "brilliance" }

\* the sum of the weights (hundredths) of the features of S among the first n
RECURSIVE WeightSum(_, _)
WeightSum(S, n) ==
    IF n = 0 THEN 0
    ELSE WeightSum(S, n - 1) + (IF FeatureOrder[n] \in S THEN weights[FeatureOrder[n]] ELSE 0)

\* C15: the weight table has exactly the twelve named features with the
\* listed values (in hundredths), the twelve weights sum to exactly 1.00, in
\* decimal and as the binary64 sum the scorer accumulates over one frame, and
\* the seven frequency-band weights sum to 0.79.
C15_WeightTable ==
    /\ weights =
          [ energy |-> 3, zcr |-> 5, spectralCentroid |-> 5, spectralFlux |-> 4,
            spectralRolloff |-> 4, subBass |-> 12, bass |-> 14, lowMid |-> 13,
            mid |-> 15, highMid |-> 11, presence |-> 8, brilliance |-> 6 ]
    /\ DOMAIN weights = Features /\ Cardinality(Features) = 12
    /\ DOMAIN weights64 = DOMAIN weights
    /\ \A f \in Features : (weights64[f][1] * 100 + 2 ^ 13) \div (2 ^ 14) = weights[f]
    /\ WeightSum(Features, Len(FeatureOrder)) = 100
    /\ WeightSum(BandFeatures, Len(FeatureOrder)) = 79
    /\ (spc = "frames" /\ frameIdx = 1 /\ featureIdx = 1) => total64 = One64

\* the twelve weights of one frame have been accumulated
C15_Witness == spc = "frames" /\ frameIdx = 1 /\ featureIdx = 1 /\ total64 = One64

----------------------------------------------------------------------------
(* Properties of the match request handler (checked under SpecHandler).    *)

\* the owner of the library entry with the given identifier
OwnerOf(audioId) ==
    LET k == CHOOSE j \in 1 .. Len(database) : database[j].audioId = audioId
    IN  StoredUserId(database[k].data)

\* the request has been answered with a match result
Answered == handler.pc = "done" /\ handler.response.status = 200

\* C19 (as claimed): in the response to a request with matchOwnOnly true, the
\* match and every entry of allScores belong to library entries owned by the
\* requesting user.
C19_OwnEntriesOnly ==
    (Answered /\ handler.body.matchOwnOnly) =>
        LET response == handler.response
        IN  /\ Truthy(response.match) => OwnerOf(response.match) = handler.body.userId
            /\ \A k \in 1 .. Len(response.allScores) :
                  /\ response.allScores[k].userId = handler.body.userId
                  /\ OwnerOf(response.allScores[k].audioId) = handler.body.userId

\* the confidence the request's own threshold is to be compared with, and
\* that threshold: the number given, 0.85 when none is given
GivenThreshold(body) ==
    IF body.threshold = NoNumber THEN DefaultThreshold ELSE body.threshold[1]

\* C20 (as claimed): the handler sends a notification to the requesting
\* userId exactly when the best confidence is >= the threshold given in the
\* request (a match identifier is returned) and a userId was supplied; a
\* request that ends in no match sends none; and the notification is issued
\* before the response.
C20_NotifiedExactlyOnMatch ==
    /\ [](Answered =>
            /\ Truthy(handler.response.match) <=>
                  handler.response.confidence >= GivenThreshold(handler.body)
            /\ handler.notified <=>
                  /\ handler.response.confidence >= GivenThreshold(handler.body)
                  /\ Truthy(handler.body.userId)
            /\ handler.pushed # NoPush =>
                  /\ handler.notified
                  /\ handler.pushed[1].userId = handler.body.userId
                  /\ handler.pushed[1].matchId = handler.response.match
            /\ ~Truthy(handler.response.match) =>
                  ~handler.notified /\ handler.pushed = NoPush)
    /\ [][(handler'.pushed # handler.pushed /\ handler'.pushed # NoPush)
             => handler'.response = NoResponse]_vars

----------------------------------------------------------------------------
(* Properties of the handlers that change the library (checked under       *)
(* SpecPersist).                                                           *)

\* C27: when fingerprint generation fails during a store request, the error
\* is surfaced to the caller (status 500), the request leaves the library
\* as it was (no entry added or replaced) and does not rewrite the database
\* file.
C27_FailedStoreChangesNothing ==
    /\ [](\A p \in PersistSlots :
             requests[p].failure = "fingerprint" =>
                 /\ requests[p].status = 500
                 /\ ~requests[p].stored
                 /\ ~requests[p].saved)
    /\ [][\A p \in PersistSlots :
             FingerprintFails(p) => UNCHANGED <<database, disk>>]_vars

\* a store request failed on a file that cannot be decoded while another
\* request had set its entry and not yet saved it
C27_Witness ==
    \E p, q \in PersistSlots :
        /\ requests[p].kind = "store" /\ requests[p].failure = "fingerprint"
        /\ requests[q].pc = "stored"
        /\ Len(database) = 2
        /\ loadDatabase(disk) # database

\* the entries of a library that have the given identifier
EntriesFor(db, audioId) == { k \in 1 .. Len(db) : db[k].audioId = audioId }

\* the two libraries agree on every identifier but the given one
SameButFor(db1, db2, audioId) ==
    \A id \in AudioIds \ { audioId } :
        { db1[k] : k \in EntriesFor(db1, id) } = { db2[k] : k \in EntriesFor(db2, id) }

\* C28: identifiers are unique keys.  After storeAudio(path, id, owner) the
\* library holds exactly one entry for id, with the new fingerprint and the
\* new owner whatever held that id before, and every entry with another
\* identifier is unchanged; deleteAudio(id) removes only the entry with that
\* id and returns true exactly when it existed.
C28_UniqueKeys ==
    /\ [](\A id \in AudioIds : Cardinality(EntriesFor(database, id)) <= 1)
    /\ [][\A p \in PersistSlots, fingerprint \in StoredFPs :
             FingerprintResolves(p, fingerprint) =>
                 /\ Cardinality(EntriesFor(database', requests[p].audioId)) = 1
                 /\ \A k \in EntriesFor(database', requests[p].audioId) :
                       database'[k].data =
                           NewData(fingerprint, requests[p].userId, clock)
                 /\ SameButFor(database, database', requests[p].audioId)]_vars
    /\ [][\A p \in PersistSlots, audioId \in AudioIds, written \in BOOLEAN :
             DeleteRequest(p, audioId, written) =>
                 /\ EntriesFor(database', audioId) = {}
                 /\ SameButFor(database, database', audioId)
                 /\ requests'[p].deleted = (EntriesFor(database, audioId) # {})]_vars

\* an upload of user u2 has replaced the entry "a" that the file still shows
\* as u1's, next to an entry "b" that is as it was
C28_Witness ==
    \E p \in PersistSlots :
        /\ requests[p].pc = "stored" /\ requests[p].kind = "upload"
        /\ requests[p].audioId = "a"
        /\ Len(database) = 2 /\ Len(loadDatabase(disk)) = 2
        /\ \E k \in 1 .. 2 :
              /\ database[k].audioId = "a" /\ database[k].data.userId = "u2"
              /\ loadDatabase(disk)[k].audioId = "a"
              /\ loadDatabase(disk)[k].data.userId = "u1"
        /\ SameButFor(database, loadDatabase(disk), "a")

\* C29: under every interleaving of store, upload and delete requests, once
\* all requests have completed and no write of the file has failed, the
\* database file holds exactly the entries of the library in memory.
C29_FileEqualsLibrary ==
    ((\A p \in PersistSlots : Vacant(p)) /\ ~writeFailed) => loadDatabase(disk) = database

\* an upload and a delete that overlapped are both over: the entry deleted is
\* gone from the file and the entry uploaded is in it
C29_Witness ==
    /\ \A p \in PersistSlots : Vacant(p)
    /\ ~writeFailed
    /\ requests[1].kind = "upload" /\ requests[1].saved
    /\ requests[2].kind = "delete" /\ requests[2].deleted
    /\ Len(database) = 1 /\ database[1].audioId = "b"
    /\ disk = saveDatabase(database)

----------------------------------------------------------------------------
(* Properties of the sensor (checked under SpecSensor).                    *)

\* C24: a trigger upload is started only on a chunk whose level exceeds
\* TRIGGER_THRESHOLD, and the start times of any two trigger uploads are at
\* least COOLDOWN_MS apart, even while an earlier upload is still in flight.
C24_TriggerCooldown ==
    /\ \A k \in 1 .. Len(uploads) : uploads[k].level > TRIGGER_THRESHOLD
    /\ \A j, k \in 1 .. Len(uploads) :
          j < k => uploads[k].started - uploads[j].started >= COOLDOWN_MS

\* a second upload started exactly COOLDOWN_MS after the first, which had
\* not settled, and a third while the second was in flight
C24_Witness ==
    /\ Len(uploads) = 3
    /\ uploads[2].started - uploads[1].started = COOLDOWN_MS
    /\ ~uploads[1].settled /\ ~uploads[2].settled

====
